---- MODULE Spec2Model ----
(***************************************************************************)
(* One-line diagram editor: the pin-graph simulation (energization and     *)
(* AC/DC signal propagation) of src/src/OneLineEditor.tsx, and the editor  *)
(* operations that replace the diagram it runs on; and the prototype       *)
(* OneLinePOC of src/unnamed/part_001 with its interlocked source breakers.*)
(*                                                                         *)
(* Strings of the program are modelled as sequences of one-character       *)
(* tokens, so that pinKey / parsePin are a real formatting and a real      *)
(* parsing ("U" is <<"U">>, the pin key "U#0" is <<"U", "#", "0">>).       *)
(***************************************************************************)
EXTENDS Integers, Sequences, FiniteSets, TLC

VARIABLES
  diagram,      \* useState<Diagram>: [nodes : Seq(Node), edges : Seq(Edge)]
  lockedView,   \* the component's prop
  connectFrom,  \* useState: the pending port of a connection, or NoPort
  uidN,         \* the counter n closed over by uid
  pc,           \* where the component is: "bfs" (in the while loop of sim),
                \* "done" (rendered), "simThrew" | "renderThrew" (a TypeError
                \* left sim or the render: the component is unmounted)
  pinAdj,       \* sim: Map<PinKey, PinKey[]>
  reached,      \* sim: Map<PinKey, Set<Signal>>
  q,            \* sim: the work queue State[]
  sim,          \* the value returned by the last completed simulation
  dequeued,     \* number of q.shift() calls of the running simulation
  pushed,       \* every State given to q.push by the running simulation, in order
  prevSim,      \* the simulation result of the diagram that was replaced last
  lastOp,       \* the operation that replaced the diagram last
  selectedNode, \* useState: the id of the selected device, or NoNode
  dragging,     \* useRef: [id, dx, dy] of the device being dragged, or NoDrag
  jsonIO,       \* useState: the text of the Import / Export box, as the value it parses to
  loaded,       \* the last object Load gave to setDiagram, or NoPayload
  steps,        \* number of events handled so far
  simRuns,      \* number of runs of the useMemo callback (sim) that the last
                \* event handled led to; 1 for the first render
  ghostPos,     \* useState: the mouse position the ghost wire of a pending
                \* connection is drawn to, or NoPos
  utilClosed,   \* OneLinePOC, useState: the utility breaker is closed
  genClosed,    \* OneLinePOC, useState: the generator breaker is closed
  message,      \* OneLinePOC, useState: the text of the message box, or NoMessage
  editMode,     \* OneLinePOC, useState
  energized     \* OneLinePOC, useMemo: [node, edge] of the last render

vars == <<diagram, lockedView, connectFrom, uidN, pc, pinAdj, reached, q, sim,
          dequeued, pushed, prevSim, lastOp, selectedNode, dragging, jsonIO,
          loaded, steps, simRuns, ghostPos,
          utilClosed, genClosed, message, editMode, energized>>

\* the cells that only the prototype OneLinePOC has; selectedNode, connectFrom
\* and dragging are cells of both components
pocVars == <<utilClosed, genClosed, message, editMode, energized>>

-----------------------------------------------------------------------------
(* Bounds of the model *)

\* most conductors a diagram gets by port clicks
MaxEdges == 2

-----------------------------------------------------------------------------
(* Types and constants of the program *)

Signal == {"AC", "DC"}

NodeType == {"source", "breaker", "bus", "load", "rectifier", "inverter"}

\* PORTS: per device type the list of its ports, each given by its role
\* ("" where the port has no role)
PORTS ==
  [t \in NodeType |->
     CASE t = "source"    -> <<"">>
       [] t = "breaker"   -> <<"", "">>
       [] t = "bus"       -> <<"", "">>
       [] t = "load"      -> <<"", "">>
       [] t = "rectifier" -> <<"AC", "DC">>
       [] t = "inverter"  -> <<"DC", "AC">>]

\* the decimal digits, for String(n) and Number(s)
Digits == <<"0", "1", "2", "3", "4", "5", "6", "7", "8", "9">>

\* String(n) of a non-negative integer
RECURSIVE NumToStr(_)
NumToStr(n) ==
  IF n < 10 THEN <<Digits[n + 1]>>
  ELSE NumToStr(n \div 10) \o <<Digits[(n % 10) + 1]>>

\* Number(s) of a string of decimal digits
RECURSIVE StrToNum(_)
StrToNum(s) ==
  IF s = <<>> THEN 0
  ELSE StrToNum(SubSeq(s, 1, Len(s) - 1)) * 10
       + (CHOOSE d \in 0..9 : Digits[d + 1] = s[Len(s)])

\* pinKey: `${id}#${p}`
pinKey(id, p) == id \o <<"#">> \o NumToStr(p)

\* k.lastIndexOf("#"), 1-based; 0 when there is none
lastIndexOf(k) ==
  LET hits == {i \in 1..Len(k) : k[i] = "#"}
  IN  IF hits = {} THEN 0 ELSE CHOOSE i \in hits : \A j \in hits : j <= i

\* parsePin: [k.slice(0, i), Number(k.slice(i + 1))]
parsePin(k) ==
  LET i == lastIndexOf(k)
  IN  <<SubSeq(k, 1, i - 1), StrToNum(SubSeq(k, i + 1, Len(k)))>>

\* uid(p) with the counter at n: p + String(++n)
uid(p, n) == <<p>> \o NumToStr(n + 1)

\* connectFrom = null
NoPort == [node |-> <<>>, port |-> -1]

\* selectedNode = null (no device has the empty id)
NoNode == <<>>

\* dragging.current = null
NoDrag == [id |-> <<>>, dx |-> 0, dy |-> 0]

\* ghostPos === null
NoPos == [x |-> -1, y |-> -1]

\* A JavaScript value of a field of the parsed object: its type tag, its items
\* when it is an array, and its number when it is a number
JsArray(items) == [tag |-> "array", items |-> items, num |-> 0]

JsUndefined == [tag |-> "undefined", items |-> <<>>, num |-> 0]

JsNull == [tag |-> "null", items |-> <<>>, num |-> 0]

JsNumber(n) == [tag |-> "number", items |-> <<>>, num |-> n]

JsObject == [tag |-> "object", items |-> <<>>, num |-> 0]

\* Array.isArray(v)
IsArray(v) == v.tag = "array"

\* the truth value of v in !v
Truthy(v) ==
  CASE v.tag \in {"array", "object"} -> TRUE
    [] v.tag \in {"undefined", "null"} -> FALSE
    [] v.tag = "number" -> v.num # 0

\* a text of the box by what JSON.parse makes of it: kind "notJson" (it
\* throws), "null", or "object" with the values of the fields nodes and edges
Text(kind, nodes, edges) == [kind |-> kind, nodes |-> nodes, edges |-> edges]

\* useState(""): JSON.parse("") throws
EmptyText == Text("notJson", JsUndefined, JsUndefined)

\* no object was loaded yet
NoPayload == Text("none", JsUndefined, JsUndefined)

\* a conductor record
Edge(id, from, fromPort, to, toPort) ==
  [id |-> id, from |-> from, fromPort |-> fromPort, to |-> to, toPort |-> toPort]

\* the device ids of STARTER (of the editor and of the prototype)
UTIL     == <<"U", "T", "I", "L">>
BRK_UTIL == <<"B", "R", "K", "_", "U", "T", "I", "L">>
GEN      == <<"G", "E", "N">>
BRK_GEN  == <<"B", "R", "K", "_", "G", "E", "N">>
BUS      == <<"B", "U", "S">>
RECT1    == <<"R", "E", "C", "T", "1">>
INV1     == <<"I", "N", "V", "1">>
LOAD     == <<"L", "O", "A", "D">>

-----------------------------------------------------------------------------
(* The simulation: sim = useMemo(() => {...}, [diagram]) *)

\* new Map(): no key
EmptyMap == [k \in {} |-> k]

\* Map.set(k, v): a new key or an overwritten one
MapSet(m, k, v) == [x \in (DOMAIN m) \cup {k} |-> IF x = k THEN v ELSE m[x]]

\* nodesById = new Map(diagram.nodes.map(n => [n.id, n])): of two nodes with
\* one id the later one stays
nodesById(nodes) ==
  [id \in {nodes[i].id : i \in DOMAIN nodes} |->
     LET at == {i \in DOMAIN nodes : nodes[i].id = id}
     IN  nodes[CHOOSE i \in at : \A j \in at : j <= i]]

\* pushAdj(a, b): append b to the neighbour list of a
pushAdj(adj, a, b) ==
  IF a \in DOMAIN adj THEN [adj EXCEPT ![a] = Append(@, b)]
  ELSE MapSet(adj, a, <<b>>)

\* 1) Wires: for (const e of diagram.edges) { pushAdj(A, B); pushAdj(B, A); }
\* over the first n conductors
RECURSIVE wireAdj(_, _)
wireAdj(edges, n) ==
  IF n = 0 THEN EmptyMap
  ELSE LET e == edges[n]
           A == pinKey(e.from, e.fromPort)
           B == pinKey(e.to, e.toPort)
       IN  pushAdj(pushAdj(wireAdj(edges, n - 1), A, B), B, A)

\* nodeAdj with the breaker test negated: an open breaker conducts, a closed one does not
nodeAdjInverted(adj, n) ==
  LET p0 == pinKey(n.id, 0)
      p1 == pinKey(n.id, 1)
  IN  CASE n.type = "breaker" ->
             IF ~n.closed THEN pushAdj(pushAdj(adj, p0, p1), p1, p0) ELSE adj
        [] n.type \in {"bus", "load"} -> pushAdj(pushAdj(adj, p0, p1), p1, p0)
        [] n.type \in {"rectifier", "inverter"} -> pushAdj(adj, p0, p1)
        [] OTHER -> adj

\* nodeAdj without the test of n.closed: every breaker conducts
nodeAdjAlways(adj, n) ==
  LET p0 == pinKey(n.id, 0)
      p1 == pinKey(n.id, 1)
  IN  CASE n.type \in {"breaker", "bus", "load"} -> pushAdj(pushAdj(adj, p0, p1), p1, p0)
        [] n.type \in {"rectifier", "inverter"} -> pushAdj(adj, p0, p1)
        [] OTHER -> adj

\* nodeAdj with the pass-through devices linked from terminal 0 to terminal 1 only
nodeAdjOneWay(adj, n) ==
  LET p0 == pinKey(n.id, 0)
      p1 == pinKey(n.id, 1)
  IN  CASE n.type = "breaker" -> IF n.closed THEN pushAdj(adj, p0, p1) ELSE adj
        [] n.type \in {"bus", "load", "rectifier", "inverter"} -> pushAdj(adj, p0, p1)
        [] OTHER -> adj

\* nodeAdj with the bus left out of the pass-through devices
nodeAdjLoadOnly(adj, n) ==
  LET p0 == pinKey(n.id, 0)
      p1 == pinKey(n.id, 1)
  IN  CASE n.type = "breaker" ->
             IF n.closed THEN pushAdj(pushAdj(adj, p0, p1), p1, p0) ELSE adj
        [] n.type = "load" -> pushAdj(pushAdj(adj, p0, p1), p1, p0)
        [] n.type \in {"rectifier", "inverter"} -> pushAdj(adj, p0, p1)
        [] OTHER -> adj

\* 2) Internal node connectivity of one node
nodeAdj(adj, n) ==
  LET ports == PORTS[n.type]
      p0 == pinKey(n.id, 0)
      p1 == pinKey(n.id, 1)
  IN  CASE n.type = "breaker" ->
             IF n.closed /\ Len(ports) >= 2
             THEN pushAdj(pushAdj(adj, p0, p1), p1, p0) ELSE adj
        [] n.type \in {"bus", "load"} ->
             IF Len(ports) >= 2
             THEN pushAdj(pushAdj(adj, p0, p1), p1, p0) ELSE adj
        [] n.type = "rectifier" ->
             IF Len(ports) >= 2 THEN pushAdj(adj, p0, p1) ELSE adj
        [] n.type = "inverter" ->
             IF Len(ports) >= 2 THEN pushAdj(adj, p0, p1) ELSE adj
        [] OTHER -> adj

\* for (const n of diagram.nodes) over the first n nodes, after the wires
RECURSIVE internalAdj(_, _, _)
internalAdj(nodes, n, adj) ==
  IF n = 0 THEN adj
  ELSE nodeAdj(internalAdj(nodes, n - 1, adj), nodes[n])

\* the finished pinAdj of a diagram
buildAdj(d) == internalAdj(d.nodes, Len(d.nodes), wireAdj(d.edges, Len(d.edges)))

\* seedNode without reached.set(p0, ...): the seed is queued but not recorded
seedNodeUnrecorded(s, nd) ==
  IF nd.type = "source" /\ nd.sourceSignal # "none"
  THEN [reached |-> s.reached,
        q |-> Append(s.q, [pin |-> pinKey(nd.id, 0), sig |-> nd.sourceSignal])]
  ELSE s

\* seedNode, were only the sources declared AC seeded
seedNodeACOnly(s, nd) ==
  IF nd.type = "source" /\ nd.sourceSignal = "AC"
  THEN [reached |-> MapSet(s.reached, pinKey(nd.id, 0), {nd.sourceSignal}),
        q |-> Append(s.q, [pin |-> pinKey(nd.id, 0), sig |-> nd.sourceSignal])]
  ELSE s

\* the body of the seeding loop for node nd: s = [reached, q]
seedNode(s, nd) ==
  IF nd.type = "source" /\ nd.sourceSignal # "none"
  THEN [reached |-> MapSet(s.reached, pinKey(nd.id, 0), {nd.sourceSignal}),
        q |-> Append(s.q, [pin |-> pinKey(nd.id, 0), sig |-> nd.sourceSignal])]
  ELSE s

\* seeds (sources): reached and q after the first n nodes
RECURSIVE seeds(_, _)
seeds(nodes, n) ==
  IF n = 0 THEN [reached |-> EmptyMap, q |-> <<>>]
  ELSE seedNode(seeds(nodes, n - 1), nodes[n])

\* addReach without the test set.has(sig): it always reports a new pair
addReachAlways(r, pin, sig) ==
  [reached |-> MapSet(r, pin, (IF pin \in DOMAIN r THEN r[pin] ELSE {}) \cup {sig}),
   added |-> TRUE]

\* addReach(pin, sig): the new reached map and the returned flag
addReach(r, pin, sig) ==
  LET set == IF pin \in DOMAIN r THEN r[pin] ELSE {}
  IN  IF sig \notin set
      THEN [reached |-> MapSet(r, pin, set \cup {sig}), added |-> TRUE]
      ELSE [reached |-> r, added |-> FALSE]

\* outSigOf without the conversion: a converter passes the kind it accepts
outSigOfUnconverted(node, portIdx, nbNode, nbPort, sig) ==
  IF nbNode.id = node.id
  THEN CASE node.type = "rectifier" ->
              IF portIdx = 0 /\ nbPort = 1 /\ sig = "AC" THEN sig ELSE "null"
         [] node.type = "inverter" ->
              IF portIdx = 0 /\ nbPort = 1 /\ sig = "DC" THEN sig ELSE "null"
         [] OTHER -> sig
  ELSE sig

\* outSigOf without the test of cur.sig: a converter converts whatever arrives
outSigOfAnyInput(node, portIdx, nbNode, nbPort, sig) ==
  IF nbNode.id = node.id
  THEN CASE node.type = "rectifier" ->
              IF portIdx = 0 /\ nbPort = 1 THEN "DC" ELSE "null"
         [] node.type = "inverter" ->
              IF portIdx = 0 /\ nbPort = 1 THEN "AC" ELSE "null"
         [] OTHER -> sig
  ELSE sig

\* outSig for the step from pin portIdx of node to pin nbPort of nbNode with
\* cur.sig = sig; "null" when the step is blocked
outSigOf(node, portIdx, nbNode, nbPort, sig) ==
  IF nbNode.id = node.id
  THEN CASE node.type = "rectifier" ->
              IF portIdx = 0 /\ nbPort = 1 /\ sig = "AC" THEN "DC" ELSE "null"
         [] node.type = "inverter" ->
              IF portIdx = 0 /\ nbPort = 1 /\ sig = "DC" THEN "AC" ELSE "null"
         [] OTHER -> sig
  ELSE sig

\* for (const nb of neighbors) from neighbour i on, for the dequeued state cur
\* at pin portIdx of node. st is the state of the search: reached, q, and two
\* records of what the loop did so far: pushed, every State given to q.push
\* (seeds included) in order, and dequeued, the number of q.shift() calls
\* nodesById.get(nbNodeId)! is undefined where no device has the id, and then
\* nbNode.id throws a TypeError: st.threw, and the loop is left
RECURSIVE visit(_, _, _, _, _, _, _)
visit(byId, cur, node, portIdx, neighbors, i, st) ==
  IF i > Len(neighbors) THEN st
  ELSE LET nb     == neighbors[i]
           there  == parsePin(nb)
       IN  IF there[1] \notin DOMAIN byId THEN [st EXCEPT !.threw = TRUE]
           ELSE
           LET nbNode == byId[there[1]]
               outSig == outSigOf(node, portIdx, nbNode, there[2], cur.sig)
               ar     == addReach(st.reached, nb, outSig)
           IN  IF outSig # "null" /\ ar.added
               THEN visit(byId, cur, node, portIdx, neighbors, i + 1,
                          [st EXCEPT !.reached = ar.reached,
                                     !.q = Append(@, [pin |-> nb, sig |-> outSig]),
                                     !.pushed = Append(@, [pin |-> nb, sig |-> outSig])])
               ELSE visit(byId, cur, node, portIdx, neighbors, i + 1, st)

\* one iteration of while (q.length): cur = q.shift(), then its neighbours
bfsStep(byId, adj, st) ==
  LET cur       == Head(st.q)
      here      == parsePin(cur.pin)
      neighbors == IF cur.pin \in DOMAIN adj THEN adj[cur.pin] ELSE <<>>
  IN  visit(byId, cur, byId[here[1]], here[2], neighbors, 1,
            [st EXCEPT !.q = Tail(@), !.dequeued = @ + 1])

\* edgeSigOf that marks DC as soon as either side has DC
edgeSigOfAnyDC(as, bs) ==
  IF "DC" \in as \/ "DC" \in bs THEN "DC" ELSE "AC"

\* edgeSig.set(e.id, isDC ? "DC" : "AC") for the two reached sets of e's ends
edgeSigOf(as, bs) ==
  IF ("DC" \in as \/ "DC" \in bs) /\ ~("AC" \in as /\ "AC" \in bs)
  THEN "DC" ELSE "AC"

\* nodeHotOf with k.indexOf("#") for k.lastIndexOf("#")
nodeHotFirstHash(r) ==
  {SubSeq(k, 1, (CHOOSE i \in 1..Len(k) : k[i] = "#" /\ \A j \in 1..(i - 1) : k[j] # "#") - 1) :
     k \in DOMAIN r}

\* nodeHot: for (const k of reached.keys()) nodeHot.add(parsePin(k)[0])
nodeHotOf(r) == {parsePin(k)[1] : k \in DOMAIN r}

\* derive, were edgeSig.set outside the test of the two reached sets: every
\* conductor gets a classification, "AC" when an end is not reached
deriveSigForAll(d, r) ==
  LET hot(e) == pinKey(e.from, e.fromPort) \in DOMAIN r
                /\ pinKey(e.to, e.toPort) \in DOMAIN r
      hotAt  == {i \in DOMAIN d.edges : hot(d.edges[i])}
  IN  [nodeHot |-> nodeHotOf(r),
       edgeHot |-> {d.edges[i].id : i \in hotAt},
       edgeSig |-> [id \in {d.edges[i].id : i \in DOMAIN d.edges} |->
                      LET at == {i \in DOMAIN d.edges : d.edges[i].id = id}
                          e  == d.edges[CHOOSE i \in at : \A j \in at : j <= i]
                      IN  IF hot(e)
                          THEN edgeSigOf(r[pinKey(e.from, e.fromPort)],
                                         r[pinKey(e.to, e.toPort)])
                          ELSE "AC"]]

\* derive node/edge energized & signal: the value sim returns
derive(d, r) ==
  LET hot(e) == pinKey(e.from, e.fromPort) \in DOMAIN r
                /\ pinKey(e.to, e.toPort) \in DOMAIN r
      hotAt  == {i \in DOMAIN d.edges : hot(d.edges[i])}
  IN  [nodeHot |-> nodeHotOf(r),
       edgeHot |-> {d.edges[i].id : i \in hotAt},
       edgeSig |-> [id \in {d.edges[i].id : i \in hotAt} |->
                      LET at == {i \in hotAt : d.edges[i].id = id}
                          e  == d.edges[CHOOSE i \in at : \A j \in at : j <= i]
                      IN  edgeSigOf(r[pinKey(e.from, e.fromPort)],
                                    r[pinKey(e.to, e.toPort)])]]

\* the state of the search when the while loop is entered: sources seeded
simStart(d) ==
  LET s == seeds(d.nodes, Len(d.nodes))
  IN  [reached |-> s.reached, q |-> s.q, pushed |-> s.q, dequeued |-> 0,
       threw |-> FALSE]

\* the whole while loop from a state of the search: until the queue is empty
\* or an iteration throws
RECURSIVE runBfs(_, _, _)
runBfs(byId, adj, st) ==
  IF st.q = <<>> \/ st.threw THEN st ELSE runBfs(byId, adj, bfsStep(byId, adj, st))

\* the state of the search when the while loop is left, on diagram d
searchOf(d) == runBfs(nodesById(d.nodes), buildAdj(d), simStart(d))

\* the reached map the simulation ends with on diagram d
reachedOf(d) == searchOf(d).reached

\* the value of sim for diagram d
simOf(d) == derive(d, reachedOf(d))

-----------------------------------------------------------------------------
(* The diagrams the model starts from *)

\* a Node record; sourceSignal "none" and closed FALSE stand for undefined.
\* x, y and label are given by At
Node(id, type, sourceSignal, closed) ==
  [id |-> id, type |-> type, sourceSignal |-> sourceSignal, closed |-> closed,
   x |-> 0, y |-> 0, label |-> <<>>]

\* the node n placed at (x, y) with its label
At(n, x, y, label) == [n EXCEPT !.x = x, !.y = y, !.label = label]

\* the device ids of the starting diagrams, in list order
NodeIds == << <<"U">>, <<"K", "#", "1">>, <<"L">> >>

\* the kinds of device a starting diagram is made of: what addNode makes
\* (a closed breaker, a bus, ...) and the sources of either declared kind
DeviceKinds ==
  << [type |-> "breaker",   sourceSignal |-> "none", closed |-> TRUE],
     [type |-> "bus",       sourceSignal |-> "none", closed |-> FALSE],
     [type |-> "load",      sourceSignal |-> "none", closed |-> FALSE],
     [type |-> "rectifier", sourceSignal |-> "none", closed |-> FALSE],
     [type |-> "inverter",  sourceSignal |-> "none", closed |-> FALSE],
     [type |-> "source",    sourceSignal |-> "AC",   closed |-> FALSE],
     [type |-> "source",    sourceSignal |-> "DC",   closed |-> FALSE] >>

\* the device of kind k under id
DeviceOf(id, k) == Node(id, k.type, k.sourceSignal, k.closed)

\* the ports drawn for the devices of d: (PORTS[n.type] || []).map((p, idx) => ...)
PortsOf(d) ==
  UNION {{[node |-> d.nodes[i].id, port |-> p] : p \in 0..(Len(PORTS[d.nodes[i].type]) - 1)} :
           i \in DOMAIN d.nodes}

\* the conductors port clicks can draw on the devices of nodes: any two
\* different ports, in either direction
WiresOf(nodes) ==
  LET ports == PortsOf([nodes |-> nodes, edges |-> <<>>])
  IN  {w \in ports \X ports : w[1] # w[2]}

\* the device lists of the starting diagrams: a source and two more devices
\* (at most one of them a second source). The two devices are taken in the
\* order of DeviceKinds; the other list orders are the permutations of PermsOf.
StartNodes ==
  LET K      == DOMAIN DeviceKinds
      src(k) == DeviceKinds[k].type = "source"
  IN  {<<DeviceOf(NodeIds[1], DeviceKinds[t[1]]),
         DeviceOf(NodeIds[2], DeviceKinds[t[2]]),
         DeviceOf(NodeIds[3], DeviceKinds[t[3]])>> :
         t \in {u \in K \X K \X K : src(u[1]) /\ ~src(u[2]) /\ u[2] <= u[3]}}

\* the starting diagrams: no conductor yet, or, as STARTER and every exported
\* diagram, a conductor that bears the first id of uid (the counter of uid
\* starts at 0 whatever the first diagram holds)
StartDiagrams ==
  UNION {{[nodes |-> ns, edges |-> <<>>]}
           \cup {[nodes |-> ns,
                  edges |-> <<[id |-> uid("E", 0),
                               from |-> w[1].node, fromPort |-> w[1].port,
                               to |-> w[2].node, toPort |-> w[2].port]>>] :
                   w \in WiresOf(ns)} : ns \in StartNodes}

\* what sim is before any simulation has finished
NoSim == [nodeHot |-> {}, edgeHot |-> {}, edgeSig |-> EmptyMap]

-----------------------------------------------------------------------------
(* The prototype OneLinePOC (src/unnamed/part_001): a fixed topology of six *)
(* devices whose two source breakers are interlocked                        *)

\* message === null
NoMessage == <<>>

\* the two messages of the interlock
InterlockUtil == <<"Interlock: Utility closed → Generator opened.">>
InterlockGen == <<"Interlock: Generator closed → Utility opened.">>

\* a device record of the prototype; closed is undefined but for breakers
PocNode(id, type, x, y, closed) ==
  [id |-> id, type |-> type, x |-> x, y |-> y, closed |-> closed]

\* const nodes, in the order of Object.keys: built anew in every render from
\* the two cells
PocNodes(u, g) ==
  << PocNode(UTIL, "source", 120, 80, FALSE),
     PocNode(BRK_UTIL, "breaker", 260, 80, u),
     PocNode(GEN, "source", 120, 240, FALSE),
     PocNode(BRK_GEN, "breaker", 260, 240, g),
     PocNode(BUS, "bus", 440, 160, FALSE),
     PocNode(LOAD, "load", 620, 160, FALSE) >>

\* const edges
PocEdges ==
  << Edge(<<"E", "1">>, UTIL, 0, BRK_UTIL, 0),
     Edge(<<"E", "2">>, BRK_UTIL, 1, BUS, 0),
     Edge(<<"E", "3">>, GEN, 0, BRK_GEN, 0),
     Edge(<<"E", "4">>, BRK_GEN, 1, BUS, 1),
     Edge(<<"E", "5">>, BUS, 1, LOAD, 0) >>

\* nodes[id]
PocById(ns, id) == ns[CHOOSE i \in DOMAIN ns : ns[i].id = id]

\* pocLink without the test of the breakers: every conductor links its devices
pocLinkAlways(adj, ns, e) ==
  LET a == PocById(ns, e.from)
      b == PocById(ns, e.to)
  IN  [[adj EXCEPT ![a.id] = Append(@, b.id)] EXCEPT ![b.id] = Append(@, a.id)]

\* one round of for (const e of edges): a conductor at an open breaker is
\* skipped, any other links its two devices both ways
pocLink(adj, ns, e) ==
  LET a == PocById(ns, e.from)
      b == PocById(ns, e.to)
  IN  IF (a.type = "breaker" /\ ~a.closed) \/ (b.type = "breaker" /\ ~b.closed)
      THEN adj
      ELSE [[adj EXCEPT ![a.id] = Append(@, b.id)] EXCEPT ![b.id] = Append(@, a.id)]

\* adj after the first k conductors
RECURSIVE pocAdj(_, _, _)
pocAdj(ns, es, k) ==
  IF k = 0 THEN [id \in {ns[i].id : i \in DOMAIN ns} |-> <<>>]
  ELSE pocLink(pocAdj(ns, es, k - 1), ns, es[k])

\* for (const n of adj.get(cur)) if (!reached.has(n)) { reached.add(n); q.push(n) }
RECURSIVE pocVisit(_, _, _)
pocVisit(nbs, i, st) ==
  IF i > Len(nbs) THEN st
  ELSE IF nbs[i] \in st.reached THEN pocVisit(nbs, i + 1, st)
  ELSE pocVisit(nbs, i + 1,
                [reached |-> st.reached \cup {nbs[i]}, q |-> Append(st.q, nbs[i])])

\* while (q.length) { const cur = q.shift(); ... }
RECURSIVE pocBfs(_, _)
pocBfs(adj, st) ==
  IF st.q = <<>> THEN st.reached
  ELSE pocBfs(adj, pocVisit(adj[Head(st.q)], 1, [reached |-> st.reached, q |-> Tail(st.q)]))

\* the callback of useMemo(..., [utilClosed, genClosed]): the devices reached
\* from UTIL and GEN, and the conductors both of whose devices are reached
energizedOf(u, g) ==
  LET ns      == PocNodes(u, g)
      reach   == pocBfs(pocAdj(ns, PocEdges, Len(PocEdges)),
                        [reached |-> {UTIL, GEN}, q |-> <<UTIL, GEN>>])
  IN  [node |-> reach,
       edge |-> {PocEdges[k].id : k \in {j \in DOMAIN PocEdges :
                                          /\ PocEdges[j].from \in reach
                                          /\ PocEdges[j].to \in reach}}]

\* the first values of the cells of OneLinePOC, and its first render
FirstPoc ==
  /\ utilClosed = TRUE
  /\ genClosed = FALSE
  /\ message = NoMessage
  /\ editMode = TRUE
  /\ energized = energizedOf(TRUE, FALSE)

-----------------------------------------------------------------------------
(* The editor: every operation that replaces the diagram re-runs sim before *)
(* the next event is handled                                               *)

\* the render of the conductors: diagram.nodes.find(...)! is undefined for an
\* endpoint that names no device, and portXY(undefined, ...) throws a TypeError
renderThrows(d) ==
  \E i \in DOMAIN d.edges :
    \/ \A n \in DOMAIN d.nodes : d.nodes[n].id # d.edges[i].from
    \/ \A n \in DOMAIN d.nodes : d.nodes[n].id # d.edges[i].to

\* the render of the ghost wire, drawn when !lockedView && connectFrom &&
\* ghostPos: diagram.nodes.find(x => x.id === connectFrom.node)! is undefined
\* when no device bears the id of the pending port cf, and portXY throws
ghostThrows(d, cf, gp) ==
  /\ ~lockedView
  /\ cf # NoPort
  /\ gp # NoPos
  /\ \A n \in DOMAIN d.nodes : d.nodes[n].id # cf.node

\* where the component is after the search st on diagram d and the render
afterRender(d, st) ==
  IF st.threw THEN "simThrew" ELSE IF renderThrows(d) THEN "renderThrew" ELSE "done"

\* useMemo without its dependency list: the callback runs in every render
memoRunsAlways(replaced) == 1

\* useMemo(() => ..., [diagram]): the callback runs in the render after an
\* event exactly when the event gave setDiagram a new object (replaced); with
\* the same diagram object the memoized value is returned
memoRuns(replaced) == IF replaced THEN 1 ELSE 0

\* setDiagram(d) by operation op in a handler that leaves the pending port
\* at cf and the ghost position at gp, and the render that follows: sim is
\* recomputed from d from scratch; when it throws it returns no value
SetDiagramWith(d, op, cf, gp) ==
  \E st \in {searchOf(d)} :
      /\ diagram' = d
      /\ pinAdj' = buildAdj(d)
      /\ reached' = st.reached
      /\ q' = st.q
      /\ pushed' = st.pushed
      /\ dequeued' = st.dequeued
      /\ sim' = IF st.threw THEN sim ELSE derive(d, st.reached)
      /\ pc' = IF afterRender(d, st) = "done" /\ ghostThrows(d, cf, gp)
               THEN "renderThrew" ELSE afterRender(d, st)
      /\ prevSim' = sim
      /\ lastOp' = op
      /\ simRuns' = memoRuns(TRUE)
      /\ connectFrom' = cf
      /\ ghostPos' = gp

\* setDiagram(d) by a handler that sets neither connectFrom nor ghostPos
SetDiagram(d, op) == SetDiagramWith(d, op, connectFrom, ghostPos)

\* the render after a handler that leaves the diagram alone, with the pending
\* port at cf and the ghost position at gp: the memoized sim is returned
Rerender(cf, gp) ==
  /\ pc' = IF ghostThrows(diagram, cf, gp) THEN "renderThrew" ELSE pc
  /\ connectFrom' = cf
  /\ ghostPos' = gp
  /\ simRuns' = memoRuns(FALSE)
  /\ UNCHANGED <<diagram, pinAdj, reached, q, sim, dequeued, pushed, prevSim, lastOp>>

\* the first render: useState(() => d) and the first sim
FirstRender(d) ==
  \E st \in {searchOf(d)} :
      /\ diagram = d
      /\ pinAdj = buildAdj(d)
      /\ reached = st.reached
      /\ q = st.q
      /\ pushed = st.pushed
      /\ dequeued = st.dequeued
      /\ sim = derive(d, st.reached)
      /\ pc = "done"
      /\ prevSim = NoSim
      /\ lastOp = "init"

\* the first values of the other useState and useRef cells, and of the records
FirstPanel ==
  /\ connectFrom = NoPort
  /\ selectedNode = NoNode
  /\ dragging = NoDrag
  /\ jsonIO = EmptyText
  /\ uidN = 0
  /\ loaded = NoPayload
  /\ steps = 0
  /\ simRuns = 1
  /\ ghostPos = NoPos

Init ==
  /\ lockedView \in BOOLEAN
  /\ FirstPanel
  /\ FirstPoc
  /\ \E d \in StartDiagrams : FirstRender(d)

\* withEdge, were both ends of the new conductor put at the pending port
withEdgeAtPending(d, id, from, fromPort, to, toPort) ==
  [d EXCEPT !.edges = Append(@, [id |-> id, from |-> from, fromPort |-> fromPort,
                                 to |-> from, toPort |-> fromPort])]

\* d.edges.concat({ id, from, fromPort, to, toPort })
withEdge(d, id, from, fromPort, to, toPort) ==
  [d EXCEPT !.edges = Append(@, [id |-> id, from |-> from, fromPort |-> fromPort,
                                 to |-> to, toPort |-> toPort])]

\* startConnect(nodeId, port): a click on a port
startConnect(nodeId, port) ==
  /\ ~lockedView
  /\ IF connectFrom = NoPort
     THEN /\ Rerender([node |-> nodeId, port |-> port], ghostPos)
          /\ UNCHANGED uidN
     ELSE IF connectFrom.node = nodeId /\ connectFrom.port = port
     THEN /\ Rerender(NoPort, NoPos)
          /\ UNCHANGED uidN
     ELSE /\ uidN' = uidN + 1
          /\ SetDiagramWith(withEdge(diagram, uid("E", uidN), connectFrom.node,
                                     connectFrom.port, nodeId, port),
                            "connect", NoPort, NoPos)
  /\ UNCHANGED <<lockedView, selectedNode, dragging, jsonIO, loaded>>

\* d.nodes.map(n => n.id === id && n.type === "breaker" ? {...n, closed: !n.closed} : n)
toggled(d, id) ==
  [d EXCEPT !.nodes =
     [i \in DOMAIN d.nodes |->
        IF d.nodes[i].id = id /\ d.nodes[i].type = "breaker"
        THEN [d.nodes[i] EXCEPT !.closed = ~@] ELSE d.nodes[i]]]

\* toggleBreaker(id): a double click on a breaker
toggleBreaker(id) ==
  /\ SetDiagram(toggled(diagram, id),
                IF \E i \in DOMAIN diagram.nodes :
                     /\ diagram.nodes[i].id = id
                     /\ diagram.nodes[i].type = "breaker"
                     /\ ~diagram.nodes[i].closed
                THEN "close" ELSE "open")
  /\ UNCHANGED <<lockedView, uidN, selectedNode, dragging, jsonIO, loaded>>

\* the events of a diagram that gets conductors and has its breakers switched
Next ==
  \/ \E pt \in PortsOf(diagram) :
       /\ Len(diagram.edges) < MaxEdges
       /\ startConnect(pt.node, pt.port)
       /\ UNCHANGED <<steps, pocVars>>
  \/ \E i \in DOMAIN diagram.nodes :
       /\ diagram.nodes[i].type = "breaker"
       /\ toggleBreaker(diagram.nodes[i].id)
       /\ UNCHANGED <<steps, pocVars>>

Spec == Init /\ [][Next]_vars

-----------------------------------------------------------------------------
(* The editor from its starter diagram, with every handler *)

\* STARTER: the diagram of the first render
STARTER ==
  [nodes |->
     << At(Node(UTIL, "source", "AC", FALSE), 120, 80, <<"Utility (AC Source)">>),
        At(Node(BRK_UTIL, "breaker", "none", TRUE), 260, 80, <<"CB-UTIL">>),
        At(Node(GEN, "source", "AC", FALSE), 120, 240, <<"Generator (AC Source)">>),
        At(Node(BRK_GEN, "breaker", "none", FALSE), 260, 240, <<"CB-GEN">>),
        At(Node(BUS, "bus", "none", FALSE), 440, 160, <<"Main Bus">>),
        At(Node(RECT1, "rectifier", "none", FALSE), 520, 80, <<"Rectifier">>),
        At(Node(INV1, "inverter", "none", FALSE), 520, 240, <<"Inverter">>),
        At(Node(LOAD, "load", "none", FALSE), 680, 160, <<"Critical Load">>) >>,
   edges |->
     << Edge(<<"E", "1">>, UTIL, 0, BRK_UTIL, 0),
        Edge(<<"E", "2">>, BRK_UTIL, 1, BUS, 0),
        Edge(<<"E", "3">>, GEN, 0, BRK_GEN, 0),
        Edge(<<"E", "4">>, BRK_GEN, 1, BUS, 1),
        Edge(<<"E", "5">>, BUS, 1, LOAD, 0) >>]

\* GRID, and snap(v) = Math.round(v / GRID) * GRID for an integer v
GRID == 10

snap(v) == ((2 * v + GRID) \div (2 * GRID)) * GRID

\* the values Math.random() * 520 and Math.random() * 240 are drawn from
RandomX == {0, 519}

RandomY == {0}

\* the device types in the order of the toolbar
ToolbarTypes == <<"source", "breaker", "bus", "load", "rectifier", "inverter">>

\* type[0].toUpperCase()
Initial(type) ==
  CASE type = "source" -> "S" [] type = "breaker" -> "B" [] type = "bus" -> "B"
    [] type = "load" -> "L" [] type = "rectifier" -> "R" [] type = "inverter" -> "I"

\* base: the word a new label starts with
BaseLabel(type) ==
  CASE type = "source" -> "Source" [] type = "breaker" -> "CB" [] type = "bus" -> "Bus"
    [] type = "load" -> "Load" [] type = "rectifier" -> "Rectifier"
    [] type = "inverter" -> "Inverter"

\* addNode, were it to run in the viewer too
addNodeUnlocked(type, rx, ry) ==
  /\ LET id   == uid(Initial(type), uidN)
         node == At(Node(id, type, IF type = "source" THEN "AC" ELSE "none",
                         type = "breaker"),
                    snap(120 + rx), snap(80 + ry), <<BaseLabel(type), " ">> \o id)
     IN  SetDiagram([diagram EXCEPT !.nodes = Append(@, node)], "add")
  /\ uidN' = uidN + 1
  /\ UNCHANGED <<lockedView, selectedNode, dragging, jsonIO, loaded>>

\* addNode(type): a toolbar button; rx and ry are the two random offsets
addNode(type, rx, ry) ==
  /\ ~lockedView
  /\ LET id   == uid(Initial(type), uidN)
         node == At(Node(id, type, IF type = "source" THEN "AC" ELSE "none",
                         type = "breaker"),
                    snap(120 + rx), snap(80 + ry), <<BaseLabel(type), " ">> \o id)
     IN  SetDiagram([diagram EXCEPT !.nodes = Append(@, node)], "add")
  /\ uidN' = uidN + 1
  /\ UNCHANGED <<lockedView, selectedNode, dragging, jsonIO, loaded>>

\* the positions of the mouse the events come with: clientX, clientY
MouseXY == {[x |-> 124, y |-> 83], [x |-> 446, y |-> 168]}

\* onMouseDownNode(e, n): the mouse goes down on the hit circle of device n
onMouseDownNode(m, n) ==
  /\ ~lockedView
  /\ dragging' = [id |-> n.id, dx |-> m.x - n.x, dy |-> m.y - n.y]
  /\ selectedNode' = n.id
  /\ Rerender(connectFrom, ghostPos)
  /\ UNCHANGED <<lockedView, uidN, jsonIO, loaded>>

\* onClick of the hit circle of device n
onClickNode(n) ==
  /\ ~lockedView
  /\ selectedNode' = n.id
  /\ Rerender(connectFrom, ghostPos)
  /\ UNCHANGED <<lockedView, uidN, dragging, jsonIO, loaded>>

\* d.nodes.map(n => n.id === id ? {...n, x, y} : n)
moved(d, id, x, y) ==
  [d EXCEPT !.nodes =
     [i \in DOMAIN d.nodes |->
        IF d.nodes[i].id = id THEN [d.nodes[i] EXCEPT !.x = x, !.y = y] ELSE d.nodes[i]]]

\* onMouseMove(e): with a pending connection (outside the viewer) the ghost
\* position follows the mouse; while a device is dragged it is moved
onMouseMove(m) ==
  /\ LET ghost == IF connectFrom # NoPort /\ ~lockedView THEN m ELSE ghostPos
     IN  IF dragging # NoDrag /\ ~lockedView
         THEN SetDiagramWith(moved(diagram, dragging.id, snap(m.x - dragging.dx),
                                   snap(m.y - dragging.dy)),
                             "move", connectFrom, ghost)
         ELSE Rerender(connectFrom, ghost)
  /\ UNCHANGED <<lockedView, uidN, selectedNode, dragging, jsonIO, loaded>>

\* onMouseUp()
onMouseUp ==
  /\ dragging' = NoDrag
  /\ Rerender(connectFrom, NoPos)
  /\ UNCHANGED <<lockedView, uidN, selectedNode, jsonIO, loaded>>

\* deleted, were the conductors at the deleted device kept
deletedKeepEdges(d, id) ==
  [d EXCEPT !.nodes = SelectSeq(d.nodes, LAMBDA n : n.id # id)]

\* the updater of deleteSelected: the selected device and the conductors at it go
deleted(d, id) ==
  LET keepNodes == SelectSeq(d.nodes, LAMBDA n : n.id # id)
      keepIds   == {keepNodes[i].id : i \in DOMAIN keepNodes}
  IN  [d EXCEPT !.nodes = keepNodes,
                !.edges = SelectSeq(d.edges, LAMBDA e : e.from \in keepIds /\ e.to \in keepIds)]

\* deleteSelected(): the Delete selected buttons, the Delete and Backspace keys
deleteSelected ==
  /\ selectedNode # NoNode
  /\ SetDiagramWith(deleted(diagram, selectedNode), "delete", NoPort, NoPos)
  /\ selectedNode' = NoNode
  /\ UNCHANGED <<lockedView, uidN, dragging, jsonIO, loaded>>

\* the labels typed into the rename box
Labels == {<<>>, <<"X">>}

\* renameNode(id, label): the rename box of device id is left or Enter is hit
renameNode(id, label) ==
  /\ ~lockedView
  /\ SetDiagram([diagram EXCEPT !.nodes =
                   [i \in DOMAIN diagram.nodes |->
                      IF diagram.nodes[i].id = id
                      THEN [diagram.nodes[i] EXCEPT !.label = label]
                      ELSE diagram.nodes[i]]],
                "rename")
  /\ UNCHANGED <<lockedView, uidN, selectedNode, dragging, jsonIO, loaded>>

-----------------------------------------------------------------------------
(* Import: the text of the box, JSON.parse and the Load button *)

\* devices for the texts typed into the box
SrcS == Node(<<"S">>, "source", "AC", FALSE)

BrkK == Node(<<"K">>, "breaker", "none", TRUE)

BusB == Node(<<"B">>, "bus", "none", FALSE)

RecR == Node(<<"R">>, "rectifier", "none", FALSE)

InvI == Node(<<"I">>, "inverter", "none", FALSE)

LoadL == Node(<<"L">>, "load", "none", FALSE)

\* the conversion chain: AC source -> closed breaker -> bus -> rectifier ->
\* inverter -> load
ChainDiagram ==
  [nodes |-> <<SrcS, BrkK, BusB, RecR, InvI, LoadL>>,
   edges |-> << Edge(<<"E", "1">>, <<"S">>, 0, <<"K">>, 0),
                Edge(<<"E", "2">>, <<"K">>, 1, <<"B">>, 0),
                Edge(<<"E", "3">>, <<"B">>, 1, <<"R">>, 0),
                Edge(<<"E", "4">>, <<"R">>, 1, <<"I">>, 0),
                Edge(<<"E", "5">>, <<"I">>, 1, <<"L">>, 0) >>]

\* the texts typed or pasted into the box
Texts ==
  << EmptyText,
     Text("null", JsUndefined, JsUndefined),
     Text("object", JsArray(<<SrcS>>), JsUndefined),
     Text("object", JsNull, JsArray(<<>>)),
     Text("object", JsArray(<<SrcS>>), JsNumber(0)),
     Text("object", JsArray(<<SrcS>>), JsObject),
     Text("object", JsNumber(5), JsArray(<<>>)),
     Text("object", JsArray(ChainDiagram.nodes), JsArray(ChainDiagram.edges)),
     Text("object", JsArray(<<SrcS, LoadL>>),
                    JsArray(<<Edge(<<"E", "1">>, <<"S">>, 0, <<"X">>, 0)>>)),
     Text("object", JsArray(<<SrcS, LoadL>>),
                    JsArray(<<Edge(<<"E", "1">>, <<"L">>, 0, <<"X">>, 0)>>)),
     Text("object", JsArray(<<SrcS, LoadL>>),
                    JsArray(<<Edge(<<"E", "1">>, <<"S">>, 0, <<"L">>, 2)>>)) >>

\* onChange of the box: setJsonIO(e.target.value)
onChangeJson(text) ==
  /\ ~lockedView
  /\ jsonIO' = text
  /\ Rerender(connectFrom, ghostPos)
  /\ UNCHANGED <<lockedView, uidN, selectedNode, dragging, loaded>>

\* the items of v where it is an array; the model's diagram holds an empty
\* list in the place of a value that is none
ItemsOf(v) == IF IsArray(v) THEN v.items ELSE <<>>

\* the Load button: JSON.parse(jsonIO), the test of obj.nodes and obj.edges,
\* setDiagram(obj); any throw inside the try block ends in the alert and
\* changes nothing. With a field that is no array, diagram.nodes.map or the
\* for-of over diagram.edges throws in sim.
Load ==
  /\ ~lockedView
  /\ IF jsonIO.kind = "object" /\ Truthy(jsonIO.nodes) /\ Truthy(jsonIO.edges)
     THEN /\ loaded' = jsonIO
          /\ IF IsArray(jsonIO.nodes) /\ IsArray(jsonIO.edges)
             THEN SetDiagram([nodes |-> jsonIO.nodes.items, edges |-> jsonIO.edges.items],
                             "load")
             ELSE /\ diagram' = [nodes |-> ItemsOf(jsonIO.nodes),
                                 edges |-> ItemsOf(jsonIO.edges)]
                  /\ pc' = "simThrew"
                  /\ pinAdj' = EmptyMap
                  /\ reached' = EmptyMap
                  /\ q' = <<>>
                  /\ pushed' = <<>>
                  /\ dequeued' = 0
                  /\ prevSim' = sim
                  /\ lastOp' = "load"
                  /\ simRuns' = memoRuns(TRUE)
                  /\ UNCHANGED <<sim, connectFrom, ghostPos>>
     ELSE /\ Rerender(connectFrom, ghostPos)
          /\ UNCHANGED loaded
  /\ UNCHANGED <<lockedView, uidN, selectedNode, dragging, jsonIO>>

\* most events the editor handles in one behaviour
MaxSteps == 3

\* the handler A runs for one event: the component is mounted, and the event
\* is counted
Event(A) ==
  /\ pc = "done"
  /\ steps < MaxSteps
  /\ steps' = steps + 1
  /\ A
  /\ UNCHANGED pocVars

\* the events of the editor
NextEdit ==
  \/ \E t \in DOMAIN ToolbarTypes : \E rx \in RandomX : \E ry \in RandomY :
       Event(addNode(ToolbarTypes[t], rx, ry))
  \/ \E pt \in PortsOf(diagram) : Event(startConnect(pt.node, pt.port))
  \/ \E i \in DOMAIN diagram.nodes :
       /\ diagram.nodes[i].type = "breaker"
       /\ Event(toggleBreaker(diagram.nodes[i].id))
  \/ \E i \in DOMAIN diagram.nodes : \E m \in MouseXY :
       Event(onMouseDownNode(m, diagram.nodes[i]))
  \/ \E i \in DOMAIN diagram.nodes : Event(onClickNode(diagram.nodes[i]))
  \/ \E m \in MouseXY : Event(onMouseMove(m))
  \/ Event(onMouseUp)
  \/ Event(deleteSelected)
  \/ \E i \in DOMAIN diagram.nodes : \E l \in Labels :
       Event(renameNode(diagram.nodes[i].id, l))
  \/ \E t \in DOMAIN Texts : Event(onChangeJson(Texts[t]))
  \/ Event(Load)

InitEdit ==
  /\ lockedView \in BOOLEAN
  /\ FirstPanel
  /\ FirstPoc
  /\ FirstRender(STARTER)

SpecEdit == InitEdit /\ [][NextEdit]_vars

-----------------------------------------------------------------------------
(* A session that begins by importing the export of an earlier session: the *)
(* page was loaded anew, so the counter of uid is at 0 again, while the     *)
(* imported devices and conductors bear the ids uid gave them earlier       *)

\* what Export wrote in a session that added a breaker, a source and a load,
\* joined them by two conductors and deleted the devices of STARTER
ExportedDiagram ==
  [nodes |->
     << At(Node(uid("B", 0), "breaker", "none", TRUE), 260, 80,
           <<"CB", " ">> \o uid("B", 0)),
        At(Node(uid("S", 1), "source", "AC", FALSE), 120, 80,
           <<"Source", " ">> \o uid("S", 1)),
        At(Node(uid("L", 2), "load", "none", FALSE), 400, 80,
           <<"Load", " ">> \o uid("L", 2)) >>,
   edges |->
     << Edge(uid("E", 3), uid("S", 1), 0, uid("B", 0), 0),
        Edge(uid("E", 4), uid("B", 0), 1, uid("L", 2), 0) >>]

\* the text of that export, as the value JSON.parse gives for it
ExportedText ==
  Text("object", JsArray(ExportedDiagram.nodes), JsArray(ExportedDiagram.edges))

\* most events of a session that begins with an import
MaxImportSteps == 5

\* the handler A runs for one event of such a session
ImportEvent(A) ==
  /\ pc = "done"
  /\ steps < MaxImportSteps
  /\ steps' = steps + 1
  /\ A
  /\ UNCHANGED pocVars

\* the handler A runs for one event after the import
ImportedEvent(A) == steps >= 2 /\ ImportEvent(A)

\* the export is pasted into the box, Load is pressed, and the imported
\* diagram is edited
NextImport ==
  \/ steps = 0 /\ ImportEvent(onChangeJson(ExportedText))
  \/ steps = 1 /\ ImportEvent(Load)
  \/ \E t \in DOMAIN ToolbarTypes : \E rx \in RandomX : \E ry \in RandomY :
       ImportedEvent(addNode(ToolbarTypes[t], rx, ry))
  \/ \E pt \in PortsOf(diagram) : ImportedEvent(startConnect(pt.node, pt.port))
  \/ \E i \in DOMAIN diagram.nodes :
       /\ diagram.nodes[i].type = "breaker"
       /\ ImportedEvent(toggleBreaker(diagram.nodes[i].id))
  \/ \E i \in DOMAIN diagram.nodes : \E m \in MouseXY :
       ImportedEvent(onMouseDownNode(m, diagram.nodes[i]))
  \/ \E i \in DOMAIN diagram.nodes : ImportedEvent(onClickNode(diagram.nodes[i]))
  \/ \E m \in MouseXY : ImportedEvent(onMouseMove(m))
  \/ ImportedEvent(onMouseUp)
  \/ ImportedEvent(deleteSelected)
  \/ \E i \in DOMAIN diagram.nodes : \E l \in Labels :
       ImportedEvent(renameNode(diagram.nodes[i].id, l))

InitImport ==
  /\ lockedView = FALSE
  /\ FirstPanel
  /\ FirstPoc
  /\ FirstRender(STARTER)

SpecImport == InitImport /\ [][NextImport]_vars

-----------------------------------------------------------------------------
(* The search of one simulation, one iteration of its while loop at a time *)

\* the lists of at most MaxEdges conductors with ids E1, E2, ...
EdgeLists(nodes) ==
  UNION {{[i \in 1..n |-> [id |-> uid("E", i - 1),
                           from |-> ws[i][1].node, fromPort |-> ws[i][1].port,
                           to |-> ws[i][2].node, toPort |-> ws[i][2].port]] :
            ws \in [1..n -> WiresOf(nodes)]} : n \in 0..MaxEdges}

\* the settings of the breakers of a device list: each open or closed
BreakerSettings(nodes) ==
  {[i \in DOMAIN nodes |->
      IF nodes[i].type = "breaker" THEN [nodes[i] EXCEPT !.closed = c[i]] ELSE nodes[i]] :
     c \in [DOMAIN nodes -> BOOLEAN]}

InitBfs ==
  /\ lockedView = FALSE
  /\ FirstPanel
  /\ FirstPoc
  /\ sim = NoSim
  /\ prevSim = NoSim
  /\ lastOp = "init"
  /\ pc = "bfs"
  /\ \E ns0 \in StartNodes : \E ns \in BreakerSettings(ns0) :
     \E es \in EdgeLists(ns) : \E d \in {[nodes |-> ns, edges |-> es]} :
     \E st \in {simStart(d)} :
           /\ diagram = d
           /\ pinAdj = buildAdj(d)
           /\ reached = st.reached
           /\ q = st.q
           /\ pushed = st.pushed
           /\ dequeued = st.dequeued

\* one iteration of while (q.length)
BfsStep ==
  /\ pc = "bfs"
  /\ q # <<>>
  /\ LET st == bfsStep(nodesById(diagram.nodes), pinAdj,
                       [reached |-> reached, q |-> q, pushed |-> pushed,
                        dequeued |-> dequeued, threw |-> FALSE])
     IN  /\ reached' = st.reached
         /\ q' = st.q
         /\ pushed' = st.pushed
         /\ dequeued' = st.dequeued
         /\ pc' = IF st.threw THEN "simThrew" ELSE pc
  /\ UNCHANGED <<diagram, lockedView, connectFrom, uidN, pinAdj, sim, prevSim, lastOp,
                 selectedNode, dragging, jsonIO, loaded, steps, simRuns, ghostPos,
                 pocVars>>

\* the queue is empty: sim derives its value and returns
SimFinish ==
  /\ pc = "bfs"
  /\ q = <<>>
  /\ sim' = derive(diagram, reached)
  /\ pc' = IF renderThrows(diagram) THEN "renderThrew" ELSE "done"
  /\ UNCHANGED <<diagram, lockedView, connectFrom, uidN, pinAdj, reached, q,
                 dequeued, pushed, prevSim, lastOp, selectedNode, dragging, jsonIO,
                 loaded, steps, simRuns, ghostPos, pocVars>>

NextBfs == BfsStep \/ SimFinish

SpecBfs == InitBfs /\ [][NextBfs]_vars

-----------------------------------------------------------------------------
(* The handlers of the prototype OneLinePOC. onMouseMove and the rename box *)
(* write into the nodes object of the current render, which the next render *)
(* builds anew from its literals: they set no cell                          *)

\* PORTS of the prototype
PocPORTS ==
  [source  |-> << [dx |-> 18, dy |-> 0] >>,
   breaker |-> << [dx |-> -22, dy |-> 0], [dx |-> 22, dy |-> 0] >>,
   bus     |-> << [dx |-> -40, dy |-> 0], [dx |-> 40, dy |-> 0] >>,
   load    |-> << [dx |-> -26, dy |-> 0], [dx |-> 26, dy |-> 0] >>]

\* `Connect ${connectFrom.node}:${connectFrom.port} → ${n.id}:${idx} (demo)`
ConnectMessage(cf, id, idx) ==
  <<"Connect ">> \o cf.node \o <<":">> \o NumToStr(cf.port) \o <<" → ">>
    \o id \o <<":">> \o NumToStr(idx) \o <<" (demo)">>

\* the cells that only the editor has
editorVars == <<diagram, lockedView, uidN, pc, pinAdj, reached, q, sim, dequeued, pushed,
                prevSim, lastOp, jsonIO, loaded, steps, simRuns, ghostPos>>

\* the render after a handler of the prototype: the memoized energization
\* is that of the two cells
PocRender == energized' = energizedOf(utilClosed', genClosed')

\* toggleSourceBreaker without the interlock: the requested breaker flips
toggleSourceBreakerFlipOnly(which) ==
  /\ message' = NoMessage
  /\ IF which = "util"
     THEN utilClosed' = ~utilClosed /\ genClosed' = genClosed
     ELSE genClosed' = ~genClosed /\ utilClosed' = utilClosed
  /\ UNCHANGED <<editMode, selectedNode, connectFrom, dragging>>
  /\ PocRender

\* toggleSourceBreaker(which): the two buttons, and the double click on
\* BRK_UTIL ("util") and on BRK_GEN ("gen")
toggleSourceBreaker(which) ==
  /\ IF which = "util"
     THEN IF ~utilClosed /\ genClosed
          THEN genClosed' = FALSE /\ utilClosed' = TRUE /\ message' = InterlockUtil
          ELSE utilClosed' = ~utilClosed /\ genClosed' = genClosed /\ message' = NoMessage
     ELSE IF ~genClosed /\ utilClosed
          THEN utilClosed' = FALSE /\ genClosed' = TRUE /\ message' = InterlockGen
          ELSE genClosed' = ~genClosed /\ utilClosed' = utilClosed /\ message' = NoMessage
  /\ UNCHANGED <<editMode, selectedNode, connectFrom, dragging>>
  /\ PocRender

\* the Editing button: setEditMode(v => !v)
toggleEditMode ==
  /\ editMode' = ~editMode
  /\ UNCHANGED <<utilClosed, genClosed, message, selectedNode, connectFrom, dragging>>
  /\ PocRender

\* onMouseDownGroup(e, n)
onMouseDownGroup(m, n) ==
  /\ editMode
  /\ dragging' = [id |-> n.id, dx |-> m.x - n.x, dy |-> m.y - n.y]
  /\ selectedNode' = n.id
  /\ UNCHANGED <<utilClosed, genClosed, message, editMode, connectFrom>>
  /\ PocRender

\* onClick of the group of device n: setSelectedNode(n.id)
onClickGroup(n) ==
  /\ selectedNode' = n.id
  /\ UNCHANGED <<utilClosed, genClosed, message, editMode, connectFrom, dragging>>
  /\ PocRender

\* onMouseUp of the prototype: dragging.current = null
onMouseUpPoc ==
  /\ dragging' = NoDrag
  /\ UNCHANGED <<utilClosed, genClosed, message, editMode, connectFrom, selectedNode>>
  /\ PocRender

\* onClick of port idx of device n (the ports are drawn in edit mode only)
onClickPort(n, idx) ==
  /\ editMode
  /\ IF connectFrom = NoPort
     THEN connectFrom' = [node |-> n.id, port |-> idx] /\ UNCHANGED message
     ELSE IF connectFrom.node # n.id \/ connectFrom.port # idx
     THEN message' = ConnectMessage(connectFrom, n.id, idx) /\ connectFrom' = NoPort
     ELSE UNCHANGED <<connectFrom, message>>
  /\ UNCHANGED <<utilClosed, genClosed, editMode, selectedNode, dragging>>
  /\ PocRender

\* the position of the mouse the events of the prototype come with
PocMouseXY == {[x |-> 124, y |-> 83]}

\* the events of the prototype
NextPoc ==
  \/ \E which \in {"util", "gen"} : toggleSourceBreaker(which) /\ UNCHANGED editorVars
  \/ toggleEditMode /\ UNCHANGED editorVars
  \/ \E m \in PocMouseXY : \E i \in DOMAIN PocNodes(utilClosed, genClosed) :
       onMouseDownGroup(m, PocNodes(utilClosed, genClosed)[i]) /\ UNCHANGED editorVars
  \/ \E i \in DOMAIN PocNodes(utilClosed, genClosed) :
       onClickGroup(PocNodes(utilClosed, genClosed)[i]) /\ UNCHANGED editorVars
  \/ onMouseUpPoc /\ UNCHANGED editorVars
  \/ \E i \in DOMAIN PocNodes(utilClosed, genClosed) :
       \E idx \in DOMAIN PocPORTS[PocNodes(utilClosed, genClosed)[i].type] :
         onClickPort(PocNodes(utilClosed, genClosed)[i], idx - 1) /\ UNCHANGED editorVars

\* the prototype is mounted; the editor is not, and its cells stay at the
\* values of an empty diagram
InitPoc ==
  /\ lockedView = FALSE
  /\ FirstPanel
  /\ FirstPoc
  /\ FirstRender([nodes |-> <<>>, edges |-> <<>>])

SpecPoc == InitPoc /\ [][NextPoc]_vars

-----------------------------------------------------------------------------
(* Vocabulary of the properties *)

\* the kinds recorded for terminal p of device id in the reached map r
KindsAt(r, id, p) == IF pinKey(id, p) \in DOMAIN r THEN r[pinKey(id, p)] ELSE {}

\* the (pin key, kind) pairs a reached map records
PairsOf(r) == UNION {{<<k, s>> : s \in r[k]} : k \in DOMAIN r}

\* some conductor of d ends at terminal p of device id
Attached(d, id, p) ==
  \E i \in DOMAIN d.edges :
    \/ d.edges[i].from = id /\ d.edges[i].fromPort = p
    \/ d.edges[i].to = id /\ d.edges[i].toPort = p

\* every conductor endpoint of d names a device of d and one of its terminals
WellFormed(d) ==
  \A i \in DOMAIN d.edges :
    /\ [node |-> d.edges[i].from, port |-> d.edges[i].fromPort] \in PortsOf(d)
    /\ [node |-> d.edges[i].to, port |-> d.edges[i].toPort] \in PortsOf(d)

\* The reachability relation of the specification, on triples <<id, port, kind>>:
\* one round of conductor steps (either direction, kind unchanged) and of
\* internal device steps from the set S
StepFrom(d, S) ==
  LET at(id, p) == {u \in S : u[1] = id /\ u[2] = p}
      wire(e) == {<<e.to, e.toPort, t[3]>> : t \in at(e.from, e.fromPort)}
                 \cup {<<e.from, e.fromPort, t[3]>> : t \in at(e.to, e.toPort)}
      inside(n) ==
        CASE n.type \in {"bus", "load"} \/ (n.type = "breaker" /\ n.closed) ->
               {<<n.id, 1 - t[2], t[3]>> : t \in {u \in S : u[1] = n.id}}
          [] n.type = "rectifier" ->
               {<<n.id, 1, "DC">> : t \in {u \in S : u = <<n.id, 0, "AC">>}}
          [] n.type = "inverter" ->
               {<<n.id, 1, "AC">> : t \in {u \in S : u = <<n.id, 0, "DC">>}}
          [] OTHER -> {}
  IN  S \cup UNION {wire(d.edges[i]) : i \in DOMAIN d.edges}
        \cup UNION {inside(d.nodes[i]) : i \in DOMAIN d.nodes}

\* the least set containing S and closed under StepFrom
RECURSIVE LeastClosed(_, _)
LeastClosed(d, S) ==
  LET T == StepFrom(d, S) IN IF T = S THEN S ELSE LeastClosed(d, T)

\* the least fixed point for diagram d: seeded with <<source, 0, declared kind>>
LeastReach(d) ==
  LeastClosed(d, {<<d.nodes[i].id, 0, d.nodes[i].sourceSignal>> :
                    i \in {j \in DOMAIN d.nodes :
                             d.nodes[j].type = "source" /\ d.nodes[j].sourceSignal # "none"}})

-----------------------------------------------------------------------------
(* Properties *)

\* C1: for every well-formed diagram (conductors between two terminals of one
\* device included) the reached map of the finished simulation is exactly the
\* least fixed point LeastReach of the reachability relation.
C1_ReachedIsLeastFixedPoint ==
  WellFormed(diagram) =>
    PairsOf(reached) = {<<pinKey(t[1], t[2]), t[3]>> : t \in LeastReach(diagram)}

\* C2: every conductor preserves the signal in both directions: its two
\* endpoints end with every kind of the other, also when both endpoints are
\* terminals of one device.
C2_ConductorPreservesSignal ==
  WellFormed(diagram) =>
    \A i \in DOMAIN diagram.edges :
      KindsAt(reached, diagram.edges[i].from, diagram.edges[i].fromPort)
        = KindsAt(reached, diagram.edges[i].to, diagram.edges[i].toPort)

\* the sequence seq holds no value twice
NoRepeat(seq) == \A i, j \in DOMAIN seq : i # j => seq[i] # seq[j]

\* the <<pin key, kind>> pairs of the States of seq
StatesOf(seq) == {<<seq[i].pin, seq[i].sig>> : i \in DOMAIN seq}

\* C3: the search ends on every diagram, cycles and feedback loops included.
\* Every State ever pushed is dequeued or still queued, and their number never
\* exceeds 2 x (number of pins): each iteration dequeues one State, so the loop
\* runs at most that many times, and sim returns with the queue empty.
C3_SearchTerminates ==
  /\ Len(pushed) = dequeued + Len(q)
  /\ dequeued + Len(q) <= 2 * Cardinality(PortsOf(diagram))
  /\ pc = "done" => q = <<>>

\* C3 witness: a finished search on a diagram with a loop: both terminals of a
\* bus, load or closed breaker are wired to the pin of the source, and the
\* three pins of the loop were dequeued.
C3_Witness ==
  /\ pc = "done"
  /\ dequeued = 3
  /\ \E n \in DOMAIN diagram.nodes :
       /\ diagram.nodes[n].type \in {"bus", "load"}
          \/ (diagram.nodes[n].type = "breaker" /\ diagram.nodes[n].closed)
       /\ \A p \in 0..1 :
            \E i \in DOMAIN diagram.edges :
              /\ diagram.edges[i].from = NodeIds[1]
              /\ diagram.edges[i].to = diagram.nodes[n].id
              /\ diagram.edges[i].toPort = p

\* C4: in one run every (pin, kind) pair is pushed at most once, seeds
\* included, and an iteration changes reached and the queue only by the pairs
\* that were not recorded before it: it appends exactly those to the queue and
\* adds exactly those to reached, so an attempt to add a recorded pair changes
\* neither.
C4_EnqueuedOnce ==
  [][ /\ NoRepeat(pushed)
      /\ NoRepeat(pushed')
      /\ (pc = "bfs" /\ q # <<>>) =>
           LET new == SubSeq(pushed', Len(pushed) + 1, Len(pushed'))
           IN  /\ q' = Tail(q) \o new
               /\ StatesOf(new) \cap PairsOf(reached) = {}
               /\ PairsOf(reached') = PairsOf(reached) \cup StatesOf(new) ]_vars

\* C4 witness: the search dequeued a State whose conductor leads to a pin of
\* another device that was already recorded with that kind (the attempt to add
\* it was made and pushed nothing): the pair is in pushed before the dequeued
\* State.
C4_Witness ==
  \E i \in 1..dequeued : \E j \in 1..(i - 1) : \E e \in DOMAIN diagram.edges :
    /\ diagram.edges[e].from # diagram.edges[e].to
    /\ pushed[i].pin = pinKey(diagram.edges[e].to, diagram.edges[e].toPort)
    /\ pushed[j].pin = pinKey(diagram.edges[e].from, diagram.edges[e].fromPort)
    /\ pushed[j].sig = pushed[i].sig

\* the permutations of 1..n
OrdersOf(n) == {f \in [1..n -> 1..n] : \A i, j \in 1..n : f[i] = f[j] => i = j}

\* the diagrams with the content of d: its device list and its conductor list
\* in every order
PermsOf(d) ==
  {[nodes |-> [i \in DOMAIN d.nodes |-> d.nodes[f[i]]],
    edges |-> [i \in DOMAIN d.edges |-> d.edges[g[i]]]] :
     f \in OrdersOf(Len(d.nodes)), g \in OrdersOf(Len(d.edges))}

\* C5: the derived state depends on the content of the diagram only: the
\* simulation computed again on the diagram, with its device list and its
\* conductor list in any order (hence with any order of the adjacency lists and
\* of the work queue), returns the value sim holds. (A pending connection
\* changes neither the diagram nor sim; the state without it covers the pair.)
\* It fails where two energized conductors bear one id (uid gives E1 to the
\* first conductor drawn, whatever ids the diagram holds): edgeSig keeps the
\* classification of the one that comes last in the list.
C5_Deterministic ==
  connectFrom = NoPort => \A p \in PermsOf(diagram) : simOf(p) = sim

\* C6: monotonicity: when the diagram was replaced by the diagram with one
\* more conductor (a completed connection) or with one open breaker closed,
\* every device and every conductor that was energized before is energized now.
C6_Monotone ==
  lastOp \in {"connect", "close"} =>
    /\ prevSim.nodeHot \subseteq sim.nodeHot
    /\ prevSim.edgeHot \subseteq sim.edgeHot

\* C6 witness: a breaker was closed and both energized sets grew.
C6_Witness ==
  /\ lastOp = "close"
  /\ prevSim.nodeHot \subseteq sim.nodeHot /\ prevSim.nodeHot # sim.nodeHot
  /\ prevSim.edgeHot \subseteq sim.edgeHot /\ prevSim.edgeHot # sim.edgeHot
  /\ prevSim.edgeHot # {}

\* conductor e joins terminal p1 of device id1 and terminal p2 of device id2
Joins(e, id1, p1, id2, p2) ==
  \/ e.from = id1 /\ e.fromPort = p1 /\ e.to = id2 /\ e.toPort = p2
  \/ e.from = id2 /\ e.fromPort = p2 /\ e.to = id1 /\ e.toPort = p1

\* d is one source feeding load l through breaker b and nothing else: the
\* source pin is wired to one terminal of b, the other terminal of b to l
FeedsThrough(d, b, l) ==
  /\ Len(d.nodes) = 3 /\ Len(d.edges) = 2
  /\ b.type = "breaker" /\ l.type = "load"
  /\ \E s \in DOMAIN d.nodes : \E p, r \in 0..1 : \E e1, e2 \in DOMAIN d.edges :
       /\ d.nodes[s].type = "source"
       /\ Joins(d.edges[e1], d.nodes[s].id, 0, b.id, p)
       /\ Joins(d.edges[e2], b.id, 1 - p, l.id, r)

\* C7: breaker gating: one source feeding one load through one breaker
\* energizes the load if and only if the breaker is closed.
C7_BreakerGating ==
  \A b, l \in DOMAIN diagram.nodes :
    FeedsThrough(diagram, diagram.nodes[b], diagram.nodes[l]) =>
      (diagram.nodes[l].id \in sim.nodeHot <=> diagram.nodes[b].closed)

\* C7 witness: the breaker of such a diagram was just closed, and the load,
\* not energized before, is energized.
C7_Witness ==
  /\ lastOp = "close"
  /\ \E b, l \in DOMAIN diagram.nodes :
       /\ FeedsThrough(diagram, diagram.nodes[b], diagram.nodes[l])
       /\ diagram.nodes[b].closed
       /\ diagram.nodes[l].id \in sim.nodeHot
       /\ diagram.nodes[l].id \notin prevSim.nodeHot

\* the converters of the diagram
Converters == {i \in DOMAIN diagram.nodes : diagram.nodes[i].type \in {"rectifier", "inverter"}}

\* C8: conversion directionality: nothing passes inside a converter from
\* terminal 1 to terminal 0, so a terminal 0 with no conductor is never reached;
\* and the internal step adds only the kind of terminal 1's role (rectifier DC,
\* inverter AC), so a terminal 1 with no conductor holds at most that kind.
C8_ConverterOneWay ==
  \A i \in Converters :
    LET n == diagram.nodes[i]
    IN  /\ ~Attached(diagram, n.id, 0) => KindsAt(reached, n.id, 0) = {}
        /\ ~Attached(diagram, n.id, 1) => KindsAt(reached, n.id, 1) \subseteq {PORTS[n.type][2]}

\* C8 witness: one converter converted (terminal 0 reached, terminal 1 without
\* conductor holds the converted kind) and another converter's terminal 1 is
\* reached while its terminal 0, without conductor, is not.
C8_Witness ==
  \E i, j \in Converters :
    LET n == diagram.nodes[i]
        m == diagram.nodes[j]
    IN  /\ KindsAt(reached, n.id, 0) # {}
        /\ ~Attached(diagram, n.id, 1)
        /\ KindsAt(reached, n.id, 1) = {PORTS[n.type][2]}
        /\ KindsAt(reached, m.id, 1) # {}
        /\ ~Attached(diagram, m.id, 0)
        /\ KindsAt(reached, m.id, 0) = {}

\* C9: converter input gating: when only the kind a converter does not accept
\* reaches its terminal 0 (DC at a rectifier, AC at an inverter) and no
\* conductor ends at its terminal 1, terminal 1 stays unreached, and the
\* simulation has returned its value as usual.
C9_ConverterInputGating ==
  \A i \in Converters :
    LET n == diagram.nodes[i]
    IN  (KindsAt(reached, n.id, 0) = Signal \ {PORTS[n.type][1]}
         /\ ~Attached(diagram, n.id, 1))
        => /\ KindsAt(reached, n.id, 1) = {}
           /\ pc = "done" /\ q = <<>>
           /\ n.id \in sim.nodeHot

\* C9 witness: a rectifier whose terminal 0 is reached by DC only, and whose
\* terminal 1 has no conductor.
C9_Witness ==
  \E i \in Converters :
    /\ diagram.nodes[i].type = "rectifier"
    /\ KindsAt(reached, diagram.nodes[i].id, 0) = {"DC"}
    /\ ~Attached(diagram, diagram.nodes[i].id, 1)

\* C10: a device is in nodeHot if and only if the reached set of at least one
\* of its pins is not empty; nodeHot holds nothing but device ids.
C10_NodeHotIffPinReached ==
  /\ \A i \in DOMAIN diagram.nodes :
       LET n == diagram.nodes[i]
       IN  n.id \in sim.nodeHot
           <=> \E p \in 0..(Len(PORTS[n.type]) - 1) : KindsAt(reached, n.id, p) # {}
  /\ sim.nodeHot \subseteq {diagram.nodes[i].id : i \in DOMAIN diagram.nodes}

\* C10 witness: a device energized through its terminal 1 alone next to a
\* device that is not energized.
C10_Witness ==
  \E i, j \in DOMAIN diagram.nodes :
    /\ KindsAt(reached, diagram.nodes[i].id, 0) = {}
    /\ KindsAt(reached, diagram.nodes[i].id, 1) # {}
    /\ diagram.nodes[i].id \in sim.nodeHot
    /\ diagram.nodes[j].id \notin sim.nodeHot

-----------------------------------------------------------------------------
(* Properties of the derived state and of the editor *)

\* C11: for every conductor e of the diagram, e's id is in the energized
\* conductor set sim returned if and only if both endpoint pins of e have a
\* reached set that is not empty.
C11_EdgeHotIffBothEndsReached ==
  pc = "done" =>
    \A i \in DOMAIN diagram.edges :
      LET e == diagram.edges[i]
      IN  e.id \in sim.edgeHot
          <=> (KindsAt(reached, e.from, e.fromPort) # {}
               /\ KindsAt(reached, e.to, e.toPort) # {})

\* the conductors of the diagram both of whose endpoint pins are reached
HotAt ==
  {i \in DOMAIN diagram.edges :
     /\ KindsAt(reached, diagram.edges[i].from, diagram.edges[i].fromPort) # {}
     /\ KindsAt(reached, diagram.edges[i].to, diagram.edges[i].toPort) # {}}

Content(d) ==
  [nodes |-> [i \in DOMAIN d.nodes |->
                [id |-> d.nodes[i].id, type |-> d.nodes[i].type,
                 sourceSignal |-> d.nodes[i].sourceSignal, closed |-> d.nodes[i].closed]],
   edges |-> d.edges]

\* the diagram is the starter diagram (the base case), and it is rendered
BaseCase == pc = "done" /\ Content(diagram) = Content(STARTER)

\* C13: base case (UTIL -> closed BRK_UTIL -> BUS -> LOAD, GEN -> open BRK_GEN
\* -> BUS): BUS and LOAD are energized, the conductors E1, E2, E5 of the path
\* UTIL - BRK_UTIL - BUS - LOAD are energized and classified AC, and the
\* unconnected RECT1 and INV1 are not energized.
C13_BaseCase ==
  BaseCase =>
    /\ BUS \in sim.nodeHot /\ LOAD \in sim.nodeHot
    /\ \A i \in {1, 2, 5} :
         /\ STARTER.edges[i].id \in sim.edgeHot
         /\ sim.edgeSig[STARTER.edges[i].id] = "AC"
    /\ RECT1 \notin sim.nodeHot /\ INV1 \notin sim.nodeHot

\* C13 witness: the base case after two events (a breaker switched and
\* switched back, a device moved to where it was, ...), LOAD energized.
C13_Witness == BaseCase /\ steps = 2 /\ LOAD \in sim.nodeHot

\* diagram d without the conductors that bear id
withoutEdge(d, id) == [d EXCEPT !.edges = SelectSeq(@, LAMBDA e : e.id # id)]

\* C14 as stated: in the base case only terminal 0 of the open BRK_GEN is
\* reached; the reached set of its terminal 1 is empty.
C14_OpenBreakerOutputUnreached ==
  BaseCase =>
    /\ KindsAt(reached, BRK_GEN, 0) # {}
    /\ KindsAt(reached, BRK_GEN, 1) = {}

\* C14 as amended: in the base case the open BRK_GEN passes nothing between
\* its terminals. Terminal 0 is reached (AC) through conductor E3 from GEN and
\* terminal 1 is reached (AC) through conductor E4 from the energized BUS, a
\* conductor being bidirectional; without E4 terminal 1 is not reached, and
\* without E3 terminal 0 is not reached.
C14_OpenBreakerPassesNothing ==
  BaseCase =>
    /\ KindsAt(reached, BRK_GEN, 0) = {"AC"}
    /\ KindsAt(reached, BRK_GEN, 1) = {"AC"}
    /\ KindsAt(reachedOf(withoutEdge(diagram, STARTER.edges[4].id)), BRK_GEN, 1) = {}
    /\ KindsAt(reachedOf(withoutEdge(diagram, STARTER.edges[3].id)), BRK_GEN, 0) = {}

\* C14 witness: the base case, both terminals of BRK_GEN reached and the
\* conductors E3 and E4 at them energized.
C14_Witness ==
  /\ BaseCase
  /\ KindsAt(reached, BRK_GEN, 0) # {} /\ KindsAt(reached, BRK_GEN, 1) # {}
  /\ {STARTER.edges[3].id, STARTER.edges[4].id} \subseteq sim.edgeHot

\* the diagram is the conversion chain, and it is rendered
ChainCase == pc = "done" /\ Content(diagram) = Content(ChainDiagram)

\* C15: conversion chain (AC source -> closed breaker -> bus -> rectifier ->
\* inverter -> load): terminal 1 of the rectifier is reached with exactly DC and
\* the conductor rectifier - inverter (E4) is energized and classified DC;
\* terminal 1 of the inverter is reached with exactly AC and the conductor
\* inverter - load (E5) is energized and classified AC; the load is energized.
C15_ConversionChain ==
  ChainCase =>
    /\ KindsAt(reached, RecR.id, 1) = {"DC"}
    /\ ChainDiagram.edges[4].id \in sim.edgeHot
    /\ sim.edgeSig[ChainDiagram.edges[4].id] = "DC"
    /\ KindsAt(reached, InvI.id, 1) = {"AC"}
    /\ ChainDiagram.edges[5].id \in sim.edgeHot
    /\ sim.edgeSig[ChainDiagram.edges[5].id] = "AC"
    /\ LoadL.id \in sim.nodeHot

\* C15 witness: the conversion chain was loaded and is rendered, the load
\* energized.
C15_Witness == ChainCase /\ lastOp = "load" /\ LoadL.id \in sim.nodeHot

\* one round of structural steps from the pins of S, whatever the kind: along
\* a conductor in either direction, and inside a device where it conducts
\* (closed breaker, bus, load: both ways; converter: terminal 0 to terminal 1)
LinkStep(d, S) ==
  LET wire(e) == (IF <<e.from, e.fromPort>> \in S THEN {<<e.to, e.toPort>>} ELSE {})
                 \cup (IF <<e.to, e.toPort>> \in S THEN {<<e.from, e.fromPort>>} ELSE {})
      inside(n) ==
        CASE n.type \in {"bus", "load"} \/ (n.type = "breaker" /\ n.closed) ->
               {<<n.id, 1 - t[2]>> : t \in {u \in S : u[1] = n.id /\ u[2] \in {0, 1}}}
          [] n.type \in {"rectifier", "inverter"} ->
               IF <<n.id, 0>> \in S THEN {<<n.id, 1>>} ELSE {}
          [] OTHER -> {}
  IN  S \cup UNION {wire(d.edges[i]) : i \in DOMAIN d.edges}
        \cup UNION {inside(d.nodes[i]) : i \in DOMAIN d.nodes}

\* the pins a chain of such steps leads to from the pins of S
RECURSIVE LinkedFrom(_, _)
LinkedFrom(d, S) ==
  LET T == LinkStep(d, S) IN IF T = S THEN S ELSE LinkedFrom(d, T)

\* the pins with a path from a source pin
Linked(d) ==
  LinkedFrom(d, {<<d.nodes[i].id, 0>> : i \in {j \in DOMAIN d.nodes : d.nodes[j].type = "source"}})

\* C16: no path: a device that is not a source and to none of whose pins a
\* chain of conductors and permitted internal device steps leads from a source
\* pin is not in the energized device set, and no conductor attached to it is
\* in the energized conductor set.
C16_NoPathNotEnergized ==
  pc = "done" =>
    \A i \in DOMAIN diagram.nodes :
      LET n == diagram.nodes[i]
      IN  (n.type # "source"
           /\ \A p \in 0..(Len(PORTS[n.type]) - 1) : <<n.id, p>> \notin Linked(diagram))
          => /\ n.id \notin sim.nodeHot
             /\ \A j \in DOMAIN diagram.edges :
                  (diagram.edges[j].from = n.id \/ diagram.edges[j].to = n.id)
                    => diagram.edges[j].id \notin sim.edgeHot

\* C17: malformed import: Load rejects a payload that lacks an array of
\* devices or an array of conductors (the field missing, null, or present but
\* no array) and leaves the diagram as it was: every object Load ever gave to
\* setDiagram had an array in both fields.
C17_MalformedLoadRejected ==
  loaded # NoPayload => (IsArray(loaded.nodes) /\ IsArray(loaded.edges))

\* the conductors of d with an endpoint whose device is not in d.nodes
Dangling(d) ==
  {i \in DOMAIN d.edges :
     \E end \in {d.edges[i].from, d.edges[i].to} :
       \A k \in DOMAIN d.nodes : d.nodes[k].id # end}

\* C18: dangling conductors: the simulation of a diagram with a conductor
\* that names a device not in the device list returns a result, it does not
\* fail.
C18_DanglingDoesNotFail ==
  Dangling(diagram) # {} => pc # "simThrew"

\* the conductors of d with an endpoint that is no terminal of a device of d:
\* the device is not in the list, or the index is outside its type's ports
Malformed(d) ==
  {i \in DOMAIN d.edges :
     \/ [node |-> d.edges[i].from, port |-> d.edges[i].fromPort] \notin PortsOf(d)
     \/ [node |-> d.edges[i].to, port |-> d.edges[i].toPort] \notin PortsOf(d)}

\* d with its i-th conductor removed
withoutAt(d, i) ==
  [d EXCEPT !.edges = SubSeq(@, 1, i - 1) \o SubSeq(@, i + 1, Len(@))]

\* C19: a dangling conductor is structurally absent: whenever sim returns for
\* a diagram with a conductor that ends at an out-of-range terminal or at a
\* device not in the list, the energized devices and the status of every
\* other conductor are those of the diagram without that conductor, and the
\* conductor itself is not energized.
C19_DanglingIsAbsent ==
  pc # "simThrew" =>
    \A i \in Malformed(diagram) :
      LET rest == simOf(withoutAt(diagram, i))
      IN  /\ sim.nodeHot = rest.nodeHot
          /\ diagram.edges[i].id \notin sim.edgeHot
          /\ \A j \in DOMAIN diagram.edges \ {i} :
                (diagram.edges[j].id \in sim.edgeHot)
                  = (diagram.edges[j].id \in rest.edgeHot)

\* C20: well-formedness is an invariant of editing: in every state reached
\* from the starter diagram by addNode, port clicks, deleteSelected,
\* toggleBreaker, renameNode and drag moves (no Load accepted), both endpoints
\* of every conductor are a terminal of a device of the list, with an index
\* inside the port count of the device's type.
C20_EditingKeepsWellFormed ==
  loaded = NoPayload => WellFormed(diagram)

\* a device with conductors at it was deleted after another edit
C20_Witness ==
  /\ loaded = NoPayload
  /\ lastOp = "delete"
  /\ steps = MaxSteps
  /\ Len(diagram.edges) < Len(STARTER.edges)

\* diagram e is diagram d but for the label (field = "label") or the x and y
\* (field = "xy") of at most one device
DisplayOnly(d, e, field) ==
  /\ e.edges = d.edges
  /\ Len(e.nodes) = Len(d.nodes)
  /\ \E k \in DOMAIN d.nodes :
       \A i \in DOMAIN d.nodes :
         IF i = k
         THEN IF field = "label"
              THEN [e.nodes[i] EXCEPT !.label = d.nodes[i].label] = d.nodes[i]
              ELSE [e.nodes[i] EXCEPT !.x = d.nodes[i].x, !.y = d.nodes[i].y] = d.nodes[i]
         ELSE e.nodes[i] = d.nodes[i]

\* C21: position and label are display-only: a step in which renameNode or a
\* drag move replaces the diagram leaves nodeHot, edgeHot and edgeSig exactly
\* as they were and changes nothing of the diagram but the label (rename) or
\* the x and y (move) of that one device.
C21_DisplayOnly ==
  [][(diagram' # diagram /\ lastOp' \in {"rename", "move"}) =>
       /\ sim' = sim
       /\ pc' = "done"
       /\ DisplayOnly(diagram, diagram', IF lastOp' = "rename" THEN "label" ELSE "xy")]_vars

C23_ViewerHasNoEditing ==
  lockedView =>
    /\ selectedNode = NoNode
    /\ connectFrom = NoPort
    /\ diagram.edges = STARTER.edges
    /\ Len(diagram.nodes) = Len(STARTER.nodes)
    /\ \A i \in DOMAIN STARTER.nodes :
         IF STARTER.nodes[i].type = "breaker"
         THEN [diagram.nodes[i] EXCEPT !.closed = STARTER.nodes[i].closed] = STARTER.nodes[i]
         ELSE diagram.nodes[i] = STARTER.nodes[i]

\* in the viewer BRK_GEN was closed by a double click, after other events
C23_Witness ==
  /\ lockedView
  /\ steps = MaxSteps
  /\ lastOp = "close"
  /\ diagram # STARTER

\* the sources of the diagram with a declared kind
Sources ==
  {i \in DOMAIN diagram.nodes :
     diagram.nodes[i].type = "source" /\ diagram.nodes[i].sourceSignal # "none"}

\* C24: a source's port is itself energized: whatever the conductors are (also
\* with none), every source with a declared kind is in nodeHot and the reached
\* set of its terminal 0 holds its declared kind.
C24_SourceEnergized ==
  pc = "done" =>
    \A i \in Sources :
      /\ diagram.nodes[i].id \in sim.nodeHot
      /\ diagram.nodes[i].sourceSignal \in KindsAt(reached, diagram.nodes[i].id, 0)

\* two sources of different kinds in a diagram without any conductor, after a
\* breaker was switched
C24_Witness ==
  /\ diagram.edges = <<>>
  /\ lastOp = "open"
  /\ \E i, j \in Sources :
       /\ diagram.nodes[i].sourceSignal = "AC"
       /\ diagram.nodes[j].sourceSignal = "DC"
       /\ {diagram.nodes[i].id, diagram.nodes[j].id} \subseteq sim.nodeHot

\* the devices that pass through as they are now: buses, loads, closed breakers
PassThrough ==
  {i \in DOMAIN diagram.nodes :
     \/ diagram.nodes[i].type \in {"bus", "load"}
     \/ diagram.nodes[i].type = "breaker" /\ diagram.nodes[i].closed}

\* C25: pass-through devices tie their terminals: when sim has returned, the
\* reached sets of terminal 0 and terminal 1 of every bus, every load and
\* every closed breaker are equal.
C25_PassThroughTies ==
  pc = "done" =>
    \A i \in PassThrough :
      KindsAt(reached, diagram.nodes[i].id, 0) = KindsAt(reached, diagram.nodes[i].id, 1)

\* a pass-through device reached through its terminal 1 only (no conductor at
\* its terminal 0) holds the kind at both terminals, next to an open breaker
\* whose two reached sets differ
C25_Witness ==
  /\ \E i \in PassThrough :
       /\ ~Attached(diagram, diagram.nodes[i].id, 0)
       /\ Attached(diagram, diagram.nodes[i].id, 1)
       /\ KindsAt(reached, diagram.nodes[i].id, 0) # {}
  /\ \E j \in DOMAIN diagram.nodes :
       /\ diagram.nodes[j].type = "breaker"
       /\ ~diagram.nodes[j].closed
       /\ KindsAt(reached, diagram.nodes[j].id, 0) # KindsAt(reached, diagram.nodes[j].id, 1)

CarriedTo(d, r, id, p, k) ==
  \E e \in DOMAIN d.edges :
    \/ /\ d.edges[e].from = id /\ d.edges[e].fromPort = p
       /\ k \in KindsAt(r, d.edges[e].to, d.edges[e].toPort)
    \/ /\ d.edges[e].to = id /\ d.edges[e].toPort = p
       /\ k \in KindsAt(r, d.edges[e].from, d.edges[e].fromPort)

ClickEffect(pt) ==
  IF connectFrom = NoPort
  THEN connectFrom' = pt /\ diagram' = diagram
  ELSE IF connectFrom = pt
  THEN connectFrom' = NoPort /\ diagram' = diagram
  ELSE /\ connectFrom' = NoPort
       /\ diagram'.nodes = diagram.nodes
       /\ Len(diagram'.edges) = Len(diagram.edges) + 1
       /\ SubSeq(diagram'.edges, 1, Len(diagram.edges)) = diagram.edges
       /\ LET e == diagram'.edges[Len(diagram'.edges)]
          IN  /\ [node |-> e.from, port |-> e.fromPort] = connectFrom
              /\ [node |-> e.to, port |-> e.toPort] = pt

\* C27: the two-click protocol of the editor: a port click with nothing
\* pending records the port and leaves the diagram; a click on the pending
\* port clears it and leaves the diagram; a click on any other port appends
\* one conductor from the pending port to the clicked port, changes no device
\* and no conductor there was, and clears the pending port.
C27_TwoClickConnect ==
  [][\A pt \in PortsOf(diagram) : startConnect(pt.node, pt.port) => ClickEffect(pt)]_vars

\* a second conductor was just drawn, between the two terminals of one device,
\* and the pending port is cleared
C27_Witness ==
  /\ lastOp = "connect"
  /\ connectFrom = NoPort
  /\ simRuns = 1
  /\ Len(diagram.edges) >= 2
  /\ LET e == diagram.edges[Len(diagram.edges)]
     IN  e.from = e.to /\ e.fromPort # e.toPort

\* sequence sq without its k-th element
WithoutIndex(sq, k) == SubSeq(sq, 1, k - 1) \o SubSeq(sq, k + 1, Len(sq))

\* what deleteSelected is to do with the device selected in a well-formed
\* diagram: that one device goes, with every conductor that ends on it; the
\* other devices and conductors stay as they are, in their order
DeleteEffect ==
  /\ selectedNode' = NoNode
  /\ connectFrom' = NoPort
  /\ \E k \in DOMAIN diagram.nodes :
       /\ diagram.nodes[k].id = selectedNode
       /\ diagram'.nodes = WithoutIndex(diagram.nodes, k)
  /\ diagram'.edges =
       SelectSeq(diagram.edges, LAMBDA e : e.from # selectedNode /\ e.to # selectedNode)

\* C28: deleteSelected with a selected device of a well-formed diagram removes
\* that device and the conductors with an end on it, keeps every other device
\* and conductor unchanged and in order, and clears the selection and the
\* pending connection.
C28_DeleteSelected ==
  [][(/\ deleteSelected
      /\ WellFormed(diagram)
      /\ \E k \in DOMAIN diagram.nodes : diagram.nodes[k].id = selectedNode)
     => DeleteEffect]_vars

\* what toggleBreaker(id) is to do: the closed flag of the one breaker with
\* the id is flipped, no other device and no conductor changes
ToggleEffect(id) ==
  /\ diagram'.edges = diagram.edges
  /\ Len(diagram'.nodes) = Len(diagram.nodes)
  /\ \E k \in DOMAIN diagram.nodes :
       /\ diagram.nodes[k].id = id
       /\ diagram.nodes[k].type = "breaker"
       /\ diagram'.nodes[k] = [diagram.nodes[k] EXCEPT !.closed = ~@]
       /\ \A j \in DOMAIN diagram.nodes \ {k} : diagram'.nodes[j] = diagram.nodes[j]

\* an id that no device bears
NoSuchId == <<"?">>

\* C29: toggleBreaker(id) flips the closed flag of the breaker with that id
\* and changes nothing else of the diagram; for the id of a device that is no
\* breaker, or of no device, the content of the diagram stays; two toggles of
\* one breaker in a row give the derived state there was.
C29_ToggleBreaker ==
  [][\A i \in DOMAIN diagram.nodes :
       LET n == diagram.nodes[i]
       IN  IF n.type = "breaker"
           THEN /\ toggleBreaker(n.id) => ToggleEffect(n.id)
                /\ pc = "done" => simOf(toggled(toggled(diagram, n.id), n.id)) = sim
           ELSE /\ (\A j \in DOMAIN diagram.nodes :
                      diagram.nodes[j].id = n.id => diagram.nodes[j].type # "breaker")
                     => toggled(diagram, n.id) = diagram
                /\ toggled(diagram, NoSuchId) = diagram]_vars

\* the ids of the devices of d
IdsOf(d) == {d.nodes[i].id : i \in DOMAIN d.nodes}

\* what addNode is to do: one device is appended, with an id no device bears
\* yet, a source declared AC, a breaker closed; the devices and conductors
\* there were stay as they are and as energized as they were, and the new
\* device is energized exactly when it is a source
AddEffect ==
  /\ diagram'.edges = diagram.edges
  /\ Len(diagram'.nodes) = Len(diagram.nodes) + 1
  /\ SubSeq(diagram'.nodes, 1, Len(diagram.nodes)) = diagram.nodes
  /\ LET n == diagram'.nodes[Len(diagram'.nodes)]
     IN  /\ n.id \notin IdsOf(diagram)
         /\ n.type = "source" => n.sourceSignal = "AC"
         /\ n.type = "breaker" => n.closed
         /\ n.id \in sim'.nodeHot <=> n.type = "source"
  /\ \A i \in DOMAIN diagram.nodes :
       diagram.nodes[i].id \in sim'.nodeHot <=> diagram.nodes[i].id \in sim.nodeHot
  /\ \A e \in DOMAIN diagram.edges :
       diagram.edges[e].id \in sim'.edgeHot <=> diagram.edges[e].id \in sim.edgeHot

\* C30: in the editor addNode appends exactly one device, whose id differs
\* from every id in the device list, a source with kind AC, a breaker closed;
\* it leaves every conductor and every device there was, and their energized
\* status, unchanged, and the new device is energized if and only if it is a
\* source. (An addNode step is the step that sets lastOp to "add" and takes
\* an id from uid.)
C30_AddNode ==
  [][(lastOp' = "add" /\ uidN' = uidN + 1) => AddEffect]_vars

-----------------------------------------------------------------------------
(* Identity of conductors, selection and pending connection *)

\* the ids of the conductors of d, in the order of the list
EdgeIds(d) == [j \in DOMAIN d.edges |-> d.edges[j].id]

\* C31: conductor ids are unique: in every state reached from the starter
\* diagram (conductors E1..E5) by addNode, port clicks and deleteSelected (no
\* Load accepted), no two conductors of the diagram bear the same id.
C31_ConductorIdsUnique ==
  loaded = NoPayload => NoRepeat(EdgeIds(diagram))

\* C32: selection and pending connection never dangle: in every state the
\* editor reaches, a Load that replaces the diagram included, selectedNode
\* (when not null) and the device of the pending connection (when not null)
\* are ids of devices of the current diagram.
C32_NoDanglingSelection ==
  pc = "done" =>
    /\ selectedNode # NoNode => selectedNode \in IdsOf(diagram)
    /\ connectFrom # NoPort => connectFrom.node \in IdsOf(diagram)

-----------------------------------------------------------------------------
(* Consistency of the derived state *)

\* sim returned a value for the current diagram
SimReturned == pc \in {"done", "renderThrew"}

\* C33: the derived state is consistent for every diagram with distinct
\* conductor ids: a conductor has an entry in the classification map exactly
\* when it is in the energized-conductor set, and the devices at both ends of
\* an energized conductor are in the energized-device set.
C33_DerivedConsistent ==
  (SimReturned /\ NoRepeat(EdgeIds(diagram))) =>
    /\ DOMAIN sim.edgeSig = sim.edgeHot
    /\ \A j \in DOMAIN diagram.edges :
         (diagram.edges[j].id \in DOMAIN sim.edgeSig)
           = (diagram.edges[j].id \in sim.edgeHot)
    /\ \A j \in DOMAIN diagram.edges :
         diagram.edges[j].id \in sim.edgeHot =>
           /\ diagram.edges[j].from \in sim.nodeHot
           /\ diagram.edges[j].to \in sim.nodeHot

\* a breaker of the starter diagram was opened: with distinct conductor ids,
\* one conductor is energized and classified, another is neither
C33_Witness ==
  /\ pc = "done"
  /\ lastOp = "open"
  /\ NoRepeat(EdgeIds(diagram))
  /\ \E j \in DOMAIN diagram.edges :
       /\ diagram.edges[j].id \in sim.edgeHot
       /\ diagram.edges[j].id \in DOMAIN sim.edgeSig
  /\ \E j \in DOMAIN diagram.edges :
       /\ diagram.edges[j].id \notin sim.edgeHot
       /\ diagram.edges[j].from \notin sim.nodeHot

\* the conductors of the diagram that join terminals of two different devices
Joining == {j \in DOMAIN diagram.edges : diagram.edges[j].from # diagram.edges[j].to}

\* the two ends of every conductor between two devices have the same reached set
EndsAgree ==
  \A j \in Joining :
    KindsAt(reached, diagram.edges[j].from, diagram.edges[j].fromPort)
      = KindsAt(reached, diagram.edges[j].to, diagram.edges[j].toPort)

\* C34: in every well-formed diagram, the two endpoints of a conductor that
\* joins terminals of two different devices have identical final reached sets;
\* the conductor is energized if and only if at least one endpoint is reached,
\* and it is classified DC if and only if the common reached set is exactly
\* {DC} ({AC} and {AC, DC} are both classified AC).
C34_JoinedEndsAgree ==
  (pc = "done" /\ WellFormed(diagram)) =>
    /\ EndsAgree
    /\ \A j \in Joining :
         LET e  == diagram.edges[j]
             as == KindsAt(reached, e.from, e.fromPort)
             bs == KindsAt(reached, e.to, e.toPort)
         IN  /\ (e.id \in sim.edgeHot) = (as # {} \/ bs # {})
             /\ (e.id \in DOMAIN sim.edgeSig /\ sim.edgeSig[e.id] = "DC") = (as = {"DC"})
             /\ (e.id \in DOMAIN sim.edgeSig /\ sim.edgeSig[e.id] = "AC")
                  = (as = {"AC"} \/ as = {"AC", "DC"})

-----------------------------------------------------------------------------
(* The prototype OneLinePOC *)

\* what a request which does to the two breakers and the message
ToggleRequest(which) ==
  LET req      == IF which = "util" THEN utilClosed ELSE genClosed
      other    == IF which = "util" THEN genClosed ELSE utilClosed
      reqNext   == IF which = "util" THEN utilClosed' ELSE genClosed'
      otherNext == IF which = "util" THEN genClosed' ELSE utilClosed'
  IN  IF ~req /\ other
      THEN /\ reqNext /\ ~otherNext
           /\ message' = (IF which = "util" THEN InterlockUtil ELSE InterlockGen)
      ELSE /\ reqNext = ~req
           /\ otherNext = other
           /\ message' = NoMessage

\* C35: source-breaker interlock of the prototype: from utility closed and
\* generator open, after any sequence of toggleSourceBreaker("util") and
\* toggleSourceBreaker("gen") the two breakers are never both closed; a
\* request to close one breaker while the other is closed opens the other,
\* closes the requested one in the same step and sets the interlock message;
\* every other toggle flips the requested breaker only and leaves the message
\* cleared.
C35_Interlock ==
  /\ [](~(utilClosed /\ genClosed))
  /\ [][\A which \in {"util", "gen"} :
          toggleSourceBreaker(which) => ToggleRequest(which)]_vars

\* the interlock acted: the generator was closed against the closed utility
C35_Witness ==
  /\ genClosed
  /\ ~utilClosed
  /\ message = InterlockGen

\* C36: energization of the prototype's fixed topology: in every reachable
\* state of the breakers, UTIL and GEN are energized; a source breaker is
\* energized if and only if it is closed; BUS and LOAD are energized if and
\* only if at least one of the two source breakers is closed; a conductor is
\* energized if and only if both devices it joins are energized.
C36_PocEnergization ==
  /\ UTIL \in energized.node
  /\ GEN \in energized.node
  /\ (BRK_UTIL \in energized.node) = utilClosed
  /\ (BRK_GEN \in energized.node) = genClosed
  /\ (BUS \in energized.node) = (utilClosed \/ genClosed)
  /\ (LOAD \in energized.node) = (utilClosed \/ genClosed)
  /\ \A k \in DOMAIN PocEdges :
       (PocEdges[k].id \in energized.edge)
         = (PocEdges[k].from \in energized.node /\ PocEdges[k].to \in energized.node)
  /\ energized.node \subseteq {UTIL, BRK_UTIL, GEN, BRK_GEN, BUS, LOAD}

\* both breakers were opened: the sources are energized, nothing else is
C36_Witness ==
  /\ ~utilClosed
  /\ ~genClosed
  /\ energized.node = {UTIL, GEN}
  /\ energized.edge = {}

====
